---- MODULE Spec2Model ----
(***************************************************************************)
(* A model of limitless-d/getnode: the GitHub crawler with its API quota   *)
(* guard (src/src/crawler.py), the repository change tracker               *)
(* (src/src/repo_manager.py), the fingerprint deduplicator                 *)
(* (src/src/tools.py), the history merger (src/src/history_manager.py)     *)
(* and the driver (src/main.py).                                           *)
(*                                                                         *)
(* The components do not share state, so each has a specification of its   *)
(* own over the variables it uses; the other variables keep their initial  *)
(* value there.                                                            *)
(*   SpecQuota    APICounter.check_limit, one caller, a clock that moves   *)
(***************************************************************************)
EXTENDS Integers, Sequences, FiniteSets, TLC

VARIABLES
    count,        \* APICounter.count
    last_reset,   \* APICounter.last_reset, in seconds
    now,          \* the wall clock datetime.now() reads, in seconds
    ticks,        \* how often the clock was moved by the environment
    sleeps,       \* how often check_limit has slept
    lastCheck,    \* what the last finished check_limit call did
    wpc,          \* per worker: its position inside check_limit
    wcur,         \* per worker: its local current_time
    wreg,         \* per worker: the value of cls.count it loaded for "+= 1"
    wwait,        \* per worker: its local wait_time
    wstat,        \* bookkeeping of the workers' calls
    sfile,        \* the state file output/repo_status.json on disk
    repo_status,  \* RepoManager.repo_status, a dict in insertion order
    rpc,          \* the RepoManager of the running process and its position
    pending,      \* what _save has still to write to the file
    sv,           \* the update_status call in progress, or the last one
    recorded,     \* keys recorded since the stored map was last not loaded
    everRecorded, \* keys recorded since the last crash
    reloaded,     \* whether a later run has loaded the keys of "recorded"
    spResult,     \* the last should_process call and its answer
    tree,         \* what the contents API serves: repository -> directory -> listing
    failing,      \* the directories whose listing cannot be fetched
    fetches,      \* the contents fetches issued so far, in order
    node_links,   \* main's node_links
    counter,      \* FileCounter
    mpc,          \* main's position
    repos,        \* main's repos, the result of search_repos
    mi,           \* main's position in "for repo in repos"
    decoded,      \* the descriptors decoded from the content of a link
    history,      \* history_nodes, the proxies of the history file
    new_nodes,    \* the result of parse_node_links
    merged,       \* the result of merge_nodes
    swapped,      \* merge_nodes applied with the two sets in either role
    gpc,          \* the position of the parse and merge steps
    links,        \* the links given to parse_node_links, with what each fetch brings
    result,       \* result of parse_node_links
    seen_set,     \* its seen-set of fingerprints ("seen")
    node_counter, \* NodeCounter.total_nodes and NodeCounter.dup_nodes
    li,           \* the position of "for index, url in enumerate(links, 1)"
    ppc,          \* "loop" until parse_node_links has returned
    report,       \* per link: the decodes applied, the stage that succeeded,
                  \* the descriptors it handed to add_nodes and how it ended
    uri,          \* a share line
    descriptor,   \* what _parse_single_line makes of it
    generated,    \* what _generate_uri makes of the descriptor
    redecoded,    \* what _parse_single_line makes of the generated line
    upc,          \* the position of the decode, generate and decode steps
    node_results, \* the argument of save_results
    v2rayn_lines, \* its list of share lines
    clash_config, \* its clash_config['proxies']
    written,      \* the files of the output directory: name and part -> content
    fpc,          \* "start" until save_results has returned
    returns_at,   \* per clock reading, the check_limit calls that returned at it
    made,         \* the check_limit calls made since the start
    qpc,          \* the position inside safe_request and its retry decorator
    attempt,      \* the attempt number of the safe_request call
    outcome,      \* what session.get brought in the last attempt
    checks,       \* the check_limit calls made by safe_request
    gets,         \* the HTTP requests issued by safe_request
    uncounted,    \* the requests issued since the counter was last set to 0
    surfaced      \* what the safe_request call gave its caller

quotaVars == <<count, last_reset, now, ticks, sleeps, lastCheck>>
workerVars == <<wpc, wcur, wreg, wwait, wstat>>

repoVars == <<sfile, repo_status, rpc, pending, sv, recorded, everRecorded,
              reloaded, spResult>>

crawlVars == <<tree, failing, fetches, node_links, counter, mpc, repos, mi>>

mergeVars == <<decoded, history, new_nodes, merged, swapped, gpc>>

parseVars == <<links, result, seen_set, node_counter, li, ppc, report>>

uriVars == <<uri, descriptor, generated, redecoded, upc>>

saveVars == <<node_results, v2rayn_lines, clash_config, written, fpc>>

budgetVars == <<returns_at, made>>

requestVars == <<qpc, attempt, outcome, checks, gets, uncounted, surfaced>>

vars == <<quotaVars, workerVars, repoVars, crawlVars, mergeVars, parseVars,
          uriVars, saveVars, budgetVars, requestVars>>

\* What the actions of one component leave alone.
notQuota == <<workerVars, repoVars, crawlVars, mergeVars, parseVars, uriVars,
              saveVars, budgetVars, requestVars>>
notWorkers == <<repoVars, crawlVars, mergeVars, parseVars, uriVars, saveVars,
                budgetVars, requestVars>>
notRepo == <<quotaVars, workerVars, crawlVars, mergeVars, parseVars, uriVars,
             saveVars, budgetVars, requestVars>>
notCrawl == <<quotaVars, workerVars, repoVars, mergeVars, parseVars, uriVars,
              saveVars, budgetVars, requestVars>>
notMerge == <<quotaVars, workerVars, repoVars, crawlVars, parseVars, uriVars,
              saveVars, budgetVars, requestVars>>
notParse == <<quotaVars, workerVars, repoVars, crawlVars, mergeVars, uriVars,
              saveVars, budgetVars, requestVars>>
notUri == <<quotaVars, workerVars, repoVars, crawlVars, mergeVars, parseVars,
            saveVars, budgetVars, requestVars>>
notSave == <<quotaVars, workerVars, repoVars, crawlVars, mergeVars, parseVars,
             uriVars, budgetVars, requestVars>>
notMergeSave == <<quotaVars, workerVars, repoVars, crawlVars, parseVars, uriVars,
                  budgetVars, requestVars>>
notBudget == <<workerVars, repoVars, crawlVars, mergeVars, parseVars, uriVars,
               saveVars, requestVars>>
notRequest == <<workerVars, repoVars, crawlVars, mergeVars,
                parseVars, uriVars, saveVars, budgetVars>>

(***************************************************************************)
(* The quota guard: src/src/crawler.py, class APICounter.                  *)
(***************************************************************************)
NEAR_LIMIT == 4800       \* "if cls.count >= 4800"
WINDOW_SECONDS == 3590   \* "(current_time - cls.last_reset).seconds >= 3590"
HOUR_SECONDS == 3600     \* "wait_time = 3600 - ..."
DAY_SECONDS == 86400     \* timedelta.seconds is the part below one day

MaxTicks == 2
MaxSleeps == 1
TimeSteps == {1800, WINDOW_SECONDS, DAY_SECONDS + 10}

\* timedelta.seconds of (a - b): the seconds of the normalized difference,
\* always in 0..86399, the days are a separate attribute the code never reads.
TimedeltaSeconds(a, b) == (a - b) % DAY_SECONDS

\* "if (current_time - cls.last_reset).seconds >= 3590"
WindowElapsed(current_time, reset) ==
    TimedeltaSeconds(current_time, reset) >= WINDOW_SECONDS

\* The near-limit test with ">" for ">=".
AtNearLimit_Above(c) == c > NEAR_LIMIT

\* "if cls.count >= 4800"
AtNearLimit(c) == c >= NEAR_LIMIT

\* "wait_time = 3600 - (current_time - cls.last_reset).seconds"
WaitTime(current_time, reset) ==
    HOUR_SECONDS - TimedeltaSeconds(current_time, reset)

NoCheck == [called |-> FALSE, began |-> 0, window |-> 0, hit |-> FALSE,
            slept |-> 0, ret |-> 0]

\* One whole call of check_limit by a single caller: the window test, the
\* increment, the near-limit test with its sleep and the reset after it.
\* time.sleep(wait_time) moves the clock by wait_time.
CheckLimit ==
    LET current_time == now
        expired == WindowElapsed(current_time, last_reset)
        count1 == IF expired THEN 0 ELSE count
        reset1 == IF expired THEN current_time ELSE last_reset
        count2 == count1 + 1
        hit == AtNearLimit(count2)
        wait_time == WaitTime(current_time, reset1)
    IN  /\ hit => sleeps < MaxSleeps
        /\ sleeps' = IF hit THEN sleeps + 1 ELSE sleeps
        /\ count' = IF hit THEN 0 ELSE count2
        /\ last_reset' = IF hit THEN current_time ELSE reset1
        /\ now' = IF hit THEN now + wait_time ELSE now
        /\ lastCheck' = [called |-> TRUE, began |-> current_time,
                         window |-> reset1, hit |-> hit,
                         slept |-> IF hit THEN wait_time ELSE 0,
                         ret |-> IF hit THEN 0 ELSE count2]
        /\ UNCHANGED ticks

\* Time passes between two calls.
Tick ==
    /\ ticks < MaxTicks
    /\ \E dt \in TimeSteps : now' = now + dt
    /\ ticks' = ticks + 1
    /\ UNCHANGED <<count, last_reset, sleeps, lastCheck>>

QuotaInit ==
    /\ count = 0
    /\ last_reset = 0
    /\ now = 0
    /\ ticks = 0
    /\ sleeps = 0
    /\ lastCheck = NoCheck

(***************************************************************************)
(* The calls that check_limit lets through, by the time at which each      *)
(* returns: the caller issues its API request right after.                 *)
(***************************************************************************)
MaxBudgetCalls == 205
MaxBudgetTicks == 1

\* One more return at clock reading t.
Returned(log, t) ==
    [u \in DOMAIN log \cup {t} |->
        IF u = t THEN (IF t \in DOMAIN log THEN log[t] + 1 ELSE 1) ELSE log[u]]

BudgetIdle ==
    /\ returns_at = <<>>
    /\ made = 0

\* A check_limit call, and the time of its return.
CountedCall ==
    /\ made < MaxBudgetCalls
    /\ CheckLimit
    /\ returns_at' = Returned(returns_at, now')
    /\ made' = made + 1

\* Time passes between two calls.
BudgetTick ==
    /\ ticks < MaxBudgetTicks
    /\ Tick
    /\ UNCHANGED budgetVars

(***************************************************************************)
(* safe_request under its retry decorator: src/src/crawler.py. Each        *)
(* attempt runs the body of safe_request: check_limit, then the request.   *)
(***************************************************************************)
MAX_RETRIES == 5
MAX_WAIT == 20           \* wait_exponential(multiplier=1, max=20)

\* What an attempt may bring: a JSON value, a response with an error status,
\* a body that is no JSON, or no response within the timeout.
Outcomes == {"ok", "http500", "http403", "bad_json", "timeout"}

\* raise_for_status raises requests.HTTPError on these
HttpErrors == {"http500", "http403"}

\* retry_if_exception_type((requests.HTTPError, json.JSONDecodeError))
Retried(o) == o \in HttpErrors \cup {"bad_json"}

\* "sleep_time = max(reset_time - time.time(), 60)"
RateLimitSleeps == {60, HOUR_SECONDS}

\* wait_exponential(multiplier=1, max=20) before the attempt after attempt n
RECURSIVE Power2(_)
Power2(n) == IF n = 0 THEN 1 ELSE 2 * Power2(n - 1)
BackoffWait(n) == IF Power2(n - 1) < MAX_WAIT THEN Power2(n - 1) ELSE MAX_WAIT

\* safe_request is called again while fewer check_limit calls than this were made
MaxChecks == 3

RequestIdle ==
    /\ qpc = "idle"
    /\ attempt = 0
    /\ outcome = "none"
    /\ checks = 0
    /\ gets = 0
    /\ uncounted = 0
    /\ surfaced = "none"

\* A caller calls safe_request(url, params): the first attempt begins.
RequestStart ==
    /\ qpc = "idle"
    /\ checks < MaxChecks
    /\ qpc' = "check"
    /\ attempt' = 1
    /\ outcome' = "none"
    /\ surfaced' = "none"
    /\ UNCHANGED <<checks, gets, uncounted, quotaVars>>

\* "APICounter.check_limit()"
RequestCheck ==
    /\ qpc = "check"
    /\ CheckLimit
    /\ checks' = checks + 1
    /\ uncounted' = IF lastCheck'.hit \/ lastCheck'.window # last_reset THEN 0 ELSE uncounted
    /\ qpc' = "get"
    /\ UNCHANGED <<attempt, outcome, gets, surfaced>>

\* "response = self.session.get(...)" to the end of the body: the value is
\* returned; on an HTTPError the handler sleeps after a 403 and raises again.
RequestGet ==
    /\ qpc = "get"
    /\ gets' = gets + 1
    /\ uncounted' = uncounted + 1
    /\ \E o \in Outcomes :
        /\ outcome' = o
        /\ IF o = "http403"
           THEN \E sleep_time \in RateLimitSleeps : now' = now + sleep_time
           ELSE now' = now
    /\ qpc' = IF outcome' = "ok" THEN "idle" ELSE "raised"
    /\ surfaced' = IF outcome' = "ok" THEN "value" ELSE surfaced
    /\ UNCHANGED <<attempt, checks, count, last_reset, ticks, sleeps, lastCheck>>

\* The decorator wrapped around the request alone: a retry does not pass
\* check_limit again.
RequestRetry_SkipCheck ==
    /\ qpc = "raised"
    /\ IF ~Retried(outcome)
       THEN /\ surfaced' = outcome
            /\ qpc' = "idle"
            /\ UNCHANGED <<attempt, now>>
       ELSE IF attempt >= MAX_RETRIES
       THEN /\ surfaced' = "RetryError"
            /\ qpc' = "idle"
            /\ UNCHANGED <<attempt, now>>
       ELSE /\ now' = now + BackoffWait(attempt)
            /\ attempt' = attempt + 1
            /\ qpc' = "get"
            /\ UNCHANGED surfaced
    /\ UNCHANGED <<outcome, checks, gets, uncounted, count, last_reset, ticks, sleeps,
                   lastCheck>>

\* The decorator on an exception of the body: another attempt after a wait,
\* RetryError after the last attempt, and an exception it is not told to
\* retry goes to the caller as it is.
RequestRetry ==
    /\ qpc = "raised"
    /\ IF ~Retried(outcome)
       THEN /\ surfaced' = outcome
            /\ qpc' = "idle"
            /\ UNCHANGED <<attempt, now>>
       ELSE IF attempt >= MAX_RETRIES
       THEN /\ surfaced' = "RetryError"
            /\ qpc' = "idle"
            /\ UNCHANGED <<attempt, now>>
       ELSE /\ now' = now + BackoffWait(attempt)
            /\ attempt' = attempt + 1
            /\ qpc' = "check"
            /\ UNCHANGED surfaced
    /\ UNCHANGED <<outcome, checks, gets, uncounted, count, last_reset, ticks, sleeps,
                   lastCheck>>

(***************************************************************************)
(* check_limit called by several workers. The method takes no lock, and    *)
(* each read and each write of a class attribute is a bytecode of its own  *)
(* between which the interpreter may switch threads: "cls.count += 1" is a *)
(* load followed by a store.                                               *)
(***************************************************************************)
Workers == {1, 2}
MaxCalls == 3

WorkersIdle ==
    /\ wpc = [w \in Workers |-> "idle"]
    /\ wcur = [w \in Workers |-> 0]
    /\ wreg = [w \in Workers |-> 0]
    /\ wwait = [w \in Workers |-> 0]
    /\ wstat = [base |-> 0, started |-> 0, completed |-> 0, resets |-> 0]

\* "current_time = datetime.now()"
WCall(w) ==
    /\ wpc[w] = "idle"
    /\ wstat.started < MaxCalls
    /\ wcur' = [wcur EXCEPT ![w] = now]
    /\ wpc' = [wpc EXCEPT ![w] = "window"]
    /\ wstat' = [wstat EXCEPT !.started = @ + 1]
    /\ UNCHANGED <<quotaVars, wreg, wwait>>

\* "if (current_time - cls.last_reset).seconds >= 3590:"
WTestWindow(w) ==
    /\ wpc[w] = "window"
    /\ wpc' = [wpc EXCEPT ![w] =
                 IF WindowElapsed(wcur[w], last_reset) THEN "zero" ELSE "load"]
    /\ UNCHANGED <<quotaVars, wcur, wreg, wwait, wstat>>

\* "cls.count = 0"
WZeroCount(w) ==
    /\ wpc[w] = "zero"
    /\ count' = 0
    /\ wpc' = [wpc EXCEPT ![w] = "restart"]
    /\ wstat' = [wstat EXCEPT !.resets = @ + 1]
    /\ UNCHANGED <<last_reset, now, ticks, sleeps, lastCheck, wcur, wreg, wwait>>

\* "cls.last_reset = current_time"
WRestartWindow(w) ==
    /\ wpc[w] = "restart"
    /\ last_reset' = wcur[w]
    /\ wpc' = [wpc EXCEPT ![w] = "load"]
    /\ UNCHANGED <<count, now, ticks, sleeps, lastCheck, wcur, wreg, wwait, wstat>>

\* "cls.count += 1", the load
WLoadCount(w) ==
    /\ wpc[w] = "load"
    /\ wreg' = [wreg EXCEPT ![w] = count]
    /\ wpc' = [wpc EXCEPT ![w] = "store"]
    /\ UNCHANGED <<quotaVars, wcur, wwait, wstat>>

\* "cls.count += 1", the store
WStoreCount(w) ==
    /\ wpc[w] = "store"
    /\ count' = wreg[w] + 1
    /\ wpc' = [wpc EXCEPT ![w] = "limit"]
    /\ UNCHANGED <<last_reset, now, ticks, sleeps, lastCheck, wcur, wreg, wwait, wstat>>

\* "if cls.count >= 4800:" and, when it is, the computation of wait_time;
\* when it is not, the call returns.
WTestLimit(w) ==
    /\ wpc[w] = "limit"
    /\ IF AtNearLimit(count)
       THEN /\ wwait' = [wwait EXCEPT ![w] = WaitTime(wcur[w], last_reset)]
            /\ wpc' = [wpc EXCEPT ![w] = "sleep"]
            /\ UNCHANGED wstat
       ELSE /\ wpc' = [wpc EXCEPT ![w] = "idle"]
            /\ wstat' = [wstat EXCEPT !.completed = @ + 1]
            /\ UNCHANGED wwait
    /\ UNCHANGED <<quotaVars, wcur, wreg>>

\* "time.sleep(wait_time)" is over, so the clock is at least wait_time later
\* than when the sleep began; then "cls.last_reset = current_time".
WWake(w) ==
    /\ wpc[w] = "sleep"
    /\ now' = IF now >= wcur[w] + wwait[w] THEN now ELSE wcur[w] + wwait[w]
    /\ last_reset' = wcur[w]
    /\ wpc' = [wpc EXCEPT ![w] = "clear"]
    /\ UNCHANGED <<count, ticks, sleeps, lastCheck, wcur, wreg, wwait, wstat>>

\* "cls.count = 0" after the sleep, and the call returns.
WClearCount(w) ==
    /\ wpc[w] = "clear"
    /\ count' = 0
    /\ wpc' = [wpc EXCEPT ![w] = "idle"]
    /\ wstat' = [wstat EXCEPT !.completed = @ + 1, !.resets = @ + 1]
    /\ UNCHANGED <<last_reset, now, ticks, sleeps, lastCheck, wcur, wreg, wwait>>

WTick == Tick /\ UNCHANGED workerVars

\* C4: with several workers calling check_limit, no increment is lost: when
\* every call that began has returned and the counter was not reset in
\* between, the counter has grown by the number of calls.
C4_NoLostIncrement ==
    ((\A w \in Workers : wpc[w] = "idle") /\ wstat.resets = 0)
        => count = wstat.base + wstat.completed

(***************************************************************************)
(* The repository change tracker: src/src/repo_manager.py.                 *)
(*                                                                         *)
(* A repository URL is its path and whether it ends in "/". A change       *)
(* marker is the text of a timestamp: unparsable ("bad"), without a UTC    *)
(* offset ("naive") or with one ("aware"); t is the local time it shows    *)
(* and off its offset, in hours. The state file is a sequence of tokens:   *)
(* "{", one token per entry, "}".                                          *)
(***************************************************************************)
RepoUrls == {[path |-> "a/x", slash |-> FALSE],
             [path |-> "a/x", slash |-> TRUE],
             [path |-> "b/y", slash |-> FALSE]}

MaxHour == 2
BadMarker == [kind |-> "bad", t |-> 0, off |-> 0]
Markers ==
    {BadMarker}
    \cup {[kind |-> "naive", t |-> t, off |-> 0] : t \in 1..MaxHour}
    \cup {[kind |-> "aware", t |-> t, off |-> o] : t \in 1..MaxHour, o \in {0, 1}}

NodeIds == {"n1"}

\* "parsed = urlparse(repo_url); repo_key = parsed.path.strip('/')"
RepoKey(repo_url) == repo_url.path

\* dateutil.parser.isoparse: raises on text that is no timestamp, gives a
\* naive datetime for text without an offset and an aware one, an instant on
\* the UTC line, for text with an offset.
IsoParse(text) ==
    IF text.kind = "bad" THEN [ok |-> FALSE, aware |-> FALSE, value |-> 0]
    ELSE IF text.kind = "naive" THEN [ok |-> TRUE, aware |-> FALSE, value |-> text.t]
    ELSE [ok |-> TRUE, aware |-> TRUE, value |-> text.t - text.off]

\* "key in self.repo_status" and "self.repo_status[key]"
HasKey(status, key) == \E i \in 1..Len(status) : status[i].key = key
Entry(status, key) == status[CHOOSE i \in 1..Len(status) : status[i].key = key]
Keys(status) == {status[i].key : i \in 1..Len(status)}

\* should_process answering False when a marker does not parse.
ShouldProcess_FailClosed(status, repo_url, latest_commit) ==
    LET repo_key == RepoKey(repo_url) IN
    IF HasKey(status, repo_key)
    THEN LET latest_date == IsoParse(latest_commit)
             stored_date == IsoParse(Entry(status, repo_key).last_commit)
         IN  IF ~latest_date.ok \/ ~stored_date.ok THEN FALSE
             ELSE IF latest_date.aware # stored_date.aware THEN TRUE
             ELSE latest_date.value > stored_date.value
    ELSE TRUE

\* "latest_date > stored_date" raises TypeError between a naive and an aware
\* datetime; every exception in the try block makes should_process answer True.
ShouldProcess(status, repo_url, latest_commit) ==
    LET repo_key == RepoKey(repo_url) IN
    IF HasKey(status, repo_key)
    THEN LET latest_date == IsoParse(latest_commit)
             stored_date == IsoParse(Entry(status, repo_key).last_commit)
         IN  IF ~latest_date.ok \/ ~stored_date.ok THEN TRUE
             ELSE IF latest_date.aware # stored_date.aware THEN TRUE
             ELSE latest_date.value > stored_date.value
    ELSE TRUE

\* "self.repo_status[repo_key] = {...}": a present key keeps its place in the
\* dict, a new one goes to the end.
SetEntry(status, key, commit_info) ==
    LET e == [key |-> key, last_commit |-> commit_info.timestamp,
              commit_hash |-> commit_info.hash]
    IN  IF HasKey(status, key)
        THEN [i \in 1..Len(status) |-> IF status[i].key = key THEN e ELSE status[i]]
        ELSE Append(status, e)

\* json.dump(self.repo_status, f, ...): the text of the whole map.
OpenBrace == [tok |-> "{"]
CloseBrace == [tok |-> "}"]
EntryToken(e) == [tok |-> "entry", key |-> e.key, last_commit |-> e.last_commit,
                  commit_hash |-> e.commit_hash]
Dump(status) ==
    <<OpenBrace>> \o [i \in 1..Len(status) |-> EntryToken(status[i])] \o <<CloseBrace>>

\* json.loads: a text parses if and only if it is a whole document.
ParsesAsMap(text) ==
    /\ Len(text) >= 2
    /\ text[1] = OpenBrace
    /\ text[Len(text)] = CloseBrace
    /\ \A i \in 2..(Len(text) - 1) : text[i].tok = "entry"
ParsedMap(text) ==
    [i \in 1..(Len(text) - 2) |->
        [key |-> text[i + 1].key, last_commit |-> text[i + 1].last_commit,
         commit_hash |-> text[i + 1].commit_hash]]

\* _load_status starting every run from an empty map.
LoadStatus_Forgetful(file, readable) == <<>>

\* _load_status: {} when the file is absent, cannot be read, is empty or does
\* not parse; the parsed map otherwise.
LoadStatus(file, readable) ==
    IF ~file.exists THEN <<>>
    ELSE IF ~readable THEN <<>>
    ELSE IF file.text = <<>> THEN <<>>
    ELSE IF ParsesAsMap(file.text) THEN ParsedMap(file.text)
    ELSE <<>>

\* Whether _load_status gets the whole stored map out of the file.
LoadsStoredMap(file, readable) ==
    ~file.exists \/ (readable /\ ParsesAsMap(file.text))

NoFile == [exists |-> FALSE, text |-> <<>>]
NoSave == [key |-> "", before |-> NoFile, after |-> NoFile]
NoQuery == [present |-> FALSE, stored |-> BadMarker, candidate |-> BadMarker,
            result |-> TRUE]

RepoIdle ==
    /\ sfile = NoFile
    /\ repo_status = <<>>
    /\ rpc = "none"
    /\ pending = <<>>
    /\ sv = NoSave
    /\ recorded = {}
    /\ everRecorded = {}
    /\ reloaded = FALSE
    /\ spResult = NoQuery

\* RepoManager.__init__: a process starts and loads the state file. Reading
\* an existing file may fail (the "except Exception" branch).
NewManager ==
    /\ rpc \in {"none", "crashed"}
    /\ \E readable \in BOOLEAN :
        /\ repo_status' = LoadStatus(sfile, readable)
        /\ recorded' = IF LoadsStoredMap(sfile, readable) THEN recorded ELSE {}
        /\ reloaded' = (LoadsStoredMap(sfile, readable) /\ recorded # {})
    /\ rpc' = "idle"
    /\ sv' = NoSave
    /\ UNCHANGED <<sfile, pending, everRecorded, spResult>>

\* should_process(repo_url, latest_commit) is called and computes its answer.
QueryShouldProcess ==
    /\ rpc = "idle"
    /\ \E repo_url \in RepoUrls, latest_commit \in Markers :
        spResult' =
            [present |-> HasKey(repo_status, RepoKey(repo_url)),
             stored |-> IF HasKey(repo_status, RepoKey(repo_url))
                        THEN Entry(repo_status, RepoKey(repo_url)).last_commit
                        ELSE BadMarker,
             candidate |-> latest_commit,
             result |-> ShouldProcess(repo_status, repo_url, latest_commit)]
    /\ rpc' = "answered"
    /\ UNCHANGED <<sfile, repo_status, pending, sv, recorded, everRecorded, reloaded>>

\* The caller has taken the answer.
ReturnShouldProcess ==
    /\ rpc = "answered"
    /\ rpc' = "idle"
    /\ spResult' = NoQuery
    /\ UNCHANGED <<sfile, repo_status, pending, sv, recorded, everRecorded, reloaded>>

\* update_status up to and including "open(self.file_path, 'w')" in _save,
\* which truncates the file.
UpdateStatus ==
    /\ rpc = "idle"
    /\ \E repo_url \in RepoUrls, ts \in Markers, h \in NodeIds :
        LET new == SetEntry(repo_status, RepoKey(repo_url),
                            [timestamp |-> ts, hash |-> h])
        IN  /\ repo_status' = new
            /\ pending' = Dump(new)
            /\ sv' = [key |-> RepoKey(repo_url), before |-> sfile,
                      after |-> [exists |-> TRUE, text |-> Dump(new)]]
    /\ sfile' = [exists |-> TRUE, text |-> <<>>]
    /\ rpc' = "saving"
    /\ UNCHANGED <<recorded, everRecorded, reloaded, spResult>>

\* json.dump writes the text piece by piece; after the last piece the file
\* is closed and update_status returns.
SaveWrite ==
    /\ rpc = "saving"
    /\ pending # <<>>
    /\ sfile' = [sfile EXCEPT !.text = Append(@, Head(pending))]
    /\ pending' = Tail(pending)
    /\ IF Tail(pending) = <<>>
       THEN /\ rpc' = "idle"
            /\ sv' = NoSave
            /\ recorded' = recorded \cup {sv.key}
            /\ everRecorded' = everRecorded \cup {sv.key}
       ELSE UNCHANGED <<rpc, sv, recorded, everRecorded>>
    /\ UNCHANGED <<repo_status, reloaded, spResult>>

\* The process ends after its last call.
Exit ==
    /\ rpc = "idle"
    /\ rpc' = "none"
    /\ repo_status' = <<>>
    /\ UNCHANGED <<sfile, pending, sv, recorded, everRecorded, reloaded, spResult>>

\* The process is killed inside _save. everRecorded starts again: it holds
\* the keys recorded since the last crash.
Crash ==
    /\ rpc = "saving"
    /\ rpc' = "crashed"
    /\ repo_status' = <<>>
    /\ pending' = <<>>
    /\ everRecorded' = {}
    /\ UNCHANGED <<sfile, sv, recorded, reloaded, spResult>>

(***************************************************************************)
(* The content crawler: src/src/crawler.py, class GitHubCrawler, and the   *)
(* loop of main that drives it.                                            *)
(*                                                                         *)
(* A directory of a repository is a number, 0 for the root; the contents   *)
(* API answers a fetch of a directory with one page of its listing. An     *)
(* entry that is a directory names, in "sub", the directory its url leads  *)
(* to, and every entry has, as its html_url, the directory and the place   *)
(* in the listing it is at. A name is its first character, its extension   *)
(* and whether the keyword pattern matches it.                             *)
(***************************************************************************)
MAX_RECURSION_DEPTH == 1
MAX_FILE_SIZE == 524288
PER_PAGE == 100

TreeDepth == 3
DirIds == 0..TreeDepth

PlainName == [lead |-> "a", ext |-> "", keyword |-> FALSE]
GoodFile == [complete |-> TRUE, type |-> "file", size |-> 100, scheme |-> "https",
             name |-> [lead |-> "a", ext |-> ".yaml", keyword |-> TRUE]]
BigFile == [GoodFile EXCEPT !.size = MAX_FILE_SIZE + 1]
SubDir == [complete |-> TRUE, type |-> "dir", size |-> 0, scheme |-> "",
           name |-> PlainName]
HiddenDir == [SubDir EXCEPT !.name.lead = "."]
\* A symbolic link to a file: the contents API lists it with type "symlink".
LinkedFile == [GoodFile EXCEPT !.type = "symlink"]

\* The listings a directory may have, as the kinds of its entries.
ListingShapes ==
    {<<>>, <<GoodFile>>, <<SubDir>>, <<GoodFile, SubDir>>, <<SubDir, GoodFile>>,
     <<SubDir, SubDir>>, <<HiddenDir, BigFile>>, <<LinkedFile>>}

\* The entries of directory d: its directories lead to directory d + 1.
ListingAt(d, shape) ==
    [i \in 1..Len(shape) |->
        [complete |-> shape[i].complete, type |-> shape[i].type,
         size |-> shape[i].size, scheme |-> shape[i].scheme,
         name |-> shape[i].name, sub |-> d + 1,
         html_url |-> [dir |-> d, entry |-> i]]]

HasSubDir(shape) == \E i \in 1..Len(shape) : shape[i].type = "dir"

\* The trees of depth up to TreeDepth: the deepest directory has no
\* directory in it.
Trees ==
    {[d \in DirIds |-> ListingAt(d, sh[d])] :
        sh \in {f \in [DirIds -> ListingShapes] : ~HasSubDir(f[TreeDepth])}}

\* safe_request(path, {"page": page, "per_page": PER_PAGE}) on a listing
PageOf(listing, page) ==
    LET first == (page - 1) * PER_PAGE + 1
        last == IF page * PER_PAGE < Len(listing) THEN page * PER_PAGE ELSE Len(listing)
    IN  IF first > Len(listing) THEN <<>> ELSE SubSeq(listing, first, last)

NoCounter == [total |-> 0, skipped |-> 0, total_links |-> 0]
NoEffects == [fetches |-> <<>>, counter |-> NoCounter]

\* The depth test letting one more level through.
TooDeep_OneMore(depth) == depth > MAX_RECURSION_DEPTH + 1

\* "if depth > MAX_RECURSION_DEPTH"
TooDeep(depth) == depth > MAX_RECURSION_DEPTH

\* The end-of-listing test taking a full page for the last one.
LastPage_AtFull(contents) == Len(contents) <= PER_PAGE

\* "if len(contents) < PER_PAGE: break"
LastPage(contents) == Len(contents) < PER_PAGE

RECURSIVE SearchContents(_, _, _, _, _), SearchPage(_, _, _, _, _, _, _)
RECURSIVE ProcessItems(_, _, _, _, _, _, _), ProcessItem(_, _, _, _, _)
RECURSIVE OneItem(_, _, _, _)

\* _process_item(item, depth): whether the entry is a node file, and what the
\* call did (fx: the fetches issued and FileCounter). The result of the
\* recursive _search_contents call is dropped.
ProcessItem(t, bad, item, depth, fx) ==
    LET fx1 == [fx EXCEPT !.counter.total = @ + 1] IN
    IF ~item.complete THEN [ok |-> FALSE, fx |-> fx1]
    ELSE IF item.name.lead \in {".", "_"} THEN [ok |-> FALSE, fx |-> fx1]
    ELSE IF item.size > MAX_FILE_SIZE
        THEN [ok |-> FALSE, fx |-> [fx1 EXCEPT !.counter.skipped = @ + 1]]
    ELSE IF item.type = "dir"
        THEN [ok |-> FALSE, fx |-> SearchContents(t, bad, item.sub, depth + 1, fx1).fx]
    ELSE IF item.name.ext \notin {".yaml", ".yml", ".txt"} THEN [ok |-> FALSE, fx |-> fx1]
    ELSE IF ~item.name.keyword THEN [ok |-> FALSE, fx |-> fx1]
    ELSE IF item.scheme \notin {"http", "https"} THEN [ok |-> FALSE, fx |-> fx1]
    ELSE [ok |-> TRUE, fx |-> fx1]

\* The effects a and then the effects b: every effect of the crawl is an
\* append to a list or an addition to a counter.
Then(a, b) ==
    [node_files |-> a.node_files \o b.node_files,
     fx |-> [fetches |-> a.fx.fetches \o b.fx.fetches,
             counter |-> [total |-> a.fx.counter.total + b.fx.counter.total,
                          skipped |-> a.fx.counter.skipped + b.fx.counter.skipped,
                          total_links |-> a.fx.counter.total_links
                                          + b.fx.counter.total_links]]]

\* The body of "for item in contents:" for one entry: what it appends and
\* adds.
OneItem(t, bad, item, depth) ==
    LET r == ProcessItem(t, bad, item, depth, NoEffects) IN
    IF ~r.ok THEN [node_files |-> <<>>, fx |-> r.fx]
    ELSE [node_files |-> <<[name |-> item.name, url |-> item.html_url,
                            download_url |-> item.scheme]>>,
          fx |-> [r.fx EXCEPT !.counter.total_links = @ + 1]]

RECURSIVE ItemsUntilFailure(_, _, _, _, _, _), ItemsOf(_, _, _, _, _, _)

\* The entries lo..hi in their order, up to the first directory among them
\* whose listing cannot be fetched.
ItemsUntilFailure(t, bad, contents, lo, hi, depth) ==
    IF lo > hi THEN [node_files |-> <<>>, fx |-> NoEffects]
    ELSE IF lo = hi THEN OneItem(t, bad, contents[lo], depth)
    ELSE LET mid == (lo + hi) \div 2
             front == ItemsUntilFailure(t, bad, contents, lo, mid, depth)
         IN  IF /\ front.fx.fetches # <<>>
                /\ front.fx.fetches[Len(front.fx.fetches)].dir \in bad
             THEN front
             ELSE Then(front, ItemsUntilFailure(t, bad, contents, mid + 1, hi, depth))

\* The loop over the entries given up when the listing of one of its
\* directories cannot be fetched.
ProcessItems_AbandonParent(t, bad, contents, i, depth, node_files, fx) ==
    Then([node_files |-> node_files, fx |-> fx],
         ItemsUntilFailure(t, bad, contents, i, Len(contents), depth))

\* The entries lo..hi in their order: one entry as the body of the loop
\* takes it, several as their front half and then the others.
ItemsOf(t, bad, contents, lo, hi, depth) ==
    IF lo > hi THEN [node_files |-> <<>>, fx |-> NoEffects]
    ELSE IF lo = hi THEN OneItem(t, bad, contents[lo], depth)
    ELSE LET mid == (lo + hi) \div 2
         IN  Then(ItemsOf(t, bad, contents, lo, mid, depth),
                  ItemsOf(t, bad, contents, mid + 1, hi, depth))

\* "for item in contents:" from entry i on, after what was appended and
\* added before it.
ProcessItems(t, bad, contents, i, depth, node_files, fx) ==
    Then([node_files |-> node_files, fx |-> fx],
         ItemsOf(t, bad, contents, i, Len(contents), depth))

\* One round of "while True:" in _search_contents: the fetch of a page, which
\* ends the loop when it raises or brings nothing, the entries of the page,
\* and the next page after a full one.
SearchPage(t, bad, path, depth, page, node_files, fx) ==
    LET fx1 == [fx EXCEPT !.fetches = Append(@, [dir |-> path, depth |-> depth,
                                                   page |-> page])]
        contents == PageOf(t[path], page)
    IN  IF path \in bad THEN [node_files |-> node_files, fx |-> fx1]
        ELSE IF contents = <<>> THEN [node_files |-> node_files, fx |-> fx1]
        ELSE LET r == ProcessItems(t, bad, contents, 1, depth, node_files, fx1) IN
             IF LastPage(contents) THEN r
             ELSE SearchPage(t, bad, path, depth, page + 1, r.node_files, r.fx)

\* _search_contents(path, depth)
SearchContents(t, bad, path, depth, fx) ==
    IF TooDeep(depth) THEN [node_files |-> <<>>, fx |-> fx]
    ELSE SearchPage(t, bad, path, depth, 1, <<>>, fx)

\* find_node_files(repo_url): the crawl from the root of the repository
FindNodeFiles(t, bad, fx) == SearchContents(t, bad, 0, 0, fx)

\* What search_repos may return: up to two repositories, each once, with
\* the change marker ("pushed_at") and the node id the search API gives.
SearchUrls == {u \in RepoUrls : ~u.slash}
SearchItems == [html_url : SearchUrls, pushed_at : Markers, node_id : NodeIds]
SearchResults ==
    {<<>>} \cup {<<a>> : a \in SearchItems}
    \cup {q \in SearchItems \X SearchItems : q[1].html_url # q[2].html_url}

RepoKeys == {RepoKey(u) : u \in RepoUrls}

\* The state files update_status can have written: every map of the keys.
StatusEntries == [key : RepoKeys, last_commit : Markers, commit_hash : NodeIds]
StatusMaps ==
    {<<>>} \cup {<<a>> : a \in StatusEntries}
    \cup {q \in StatusEntries \X StatusEntries : q[1].key # q[2].key}
StoredFiles == {NoFile} \cup {[exists |-> TRUE, text |-> Dump(m)] : m \in StatusMaps}

\* The trees of the repositories in a run of main.
MainTrees ==
    {[d \in DirIds |-> ListingAt(d, IF d < TreeDepth THEN sh ELSE <<GoodFile>>)] :
        sh \in {<<GoodFile>>, <<SubDir, GoodFile>>}}

\* Listings of several pages: n entries of one kind, the entry at place p
\* (if there is one) a directory.
PagedShape(n, p, kind) == [i \in 1..n |-> IF i = p THEN SubDir ELSE kind]

\* Lengths around the page size: no page, a short page, a full page, a full
\* page and a short one, two full pages, two full pages and a short one.
PageLens == {0, 1, PER_PAGE - 1, PER_PAGE, PER_PAGE + 1, 2 * PER_PAGE, 2 * PER_PAGE + 1}
DirPlaces == {0, 1, PER_PAGE + 1}

\* Trees whose root and whose first sub-directory have such listings; every
\* directory is listed by at most one entry, as in a file tree.
PagedTrees ==
    {[d \in DirIds |->
         ListingAt(d, IF d = 0 THEN PagedShape(n0, p, GoodFile)
                      ELSE IF d = 1 THEN PagedShape(n1, 0, k1)
                      ELSE <<GoodFile>>)] :
        n0 \in PageLens, p \in DirPlaces, n1 \in PageLens, k1 \in {GoodFile, BigFile}}

CrawlIdle ==
    /\ tree = [k \in RepoKeys |-> [d \in DirIds |-> <<>>]]
    /\ failing = [k \in RepoKeys |-> {}]
    /\ fetches = <<>>
    /\ node_links = <<>>
    /\ counter = NoCounter
    /\ mpc = "start"
    /\ repos = <<>>
    /\ mi = 1

\* main: "crawler = GitHubCrawler(); repos = crawler.search_repos()"
MainSearch ==
    /\ mpc = "start"
    /\ repos' \in SearchResults
    /\ mi' = 1
    /\ mpc' = IF repos' = <<>> THEN "collected" ELSE "crawl"
    /\ UNCHANGED <<tree, failing, fetches, node_links, counter>>

\* main: one round of "for repo in repos:", the whole find_node_files call
\* and "node_links.extend(links)".
MainCrawl ==
    /\ mpc = "crawl"
    /\ LET key == RepoKey(repos[mi].html_url)
           r == FindNodeFiles(tree[key], failing[key],
                              [fetches |-> <<>>, counter |-> counter])
       IN  /\ node_links' = node_links \o r.node_files
           /\ fetches' = fetches \o
                [j \in 1..Len(r.fx.fetches) |->
                    [repo |-> mi, dir |-> r.fx.fetches[j].dir,
                     depth |-> r.fx.fetches[j].depth, page |-> r.fx.fetches[j].page]]
           /\ counter' = r.fx.counter
    /\ mi' = mi + 1
    /\ mpc' = IF mi = Len(repos) THEN "collected" ELSE "crawl"
    /\ UNCHANGED <<tree, failing, repos>>

(***************************************************************************)
(* The fingerprint deduplicator (src/src/tools.py, class NodeUtils) and    *)
(* the history merger (src/src/history_manager.py).                        *)
(*                                                                         *)
(* A descriptor is a dict: a function from the keys it has to their        *)
(* values. A port or an alterId is a number or a string in a document, so  *)
(* its value carries which of the two it is and its decimal text.          *)
(***************************************************************************)
IntValue(text) == [tag |-> "int", s |-> text]
StrValue(text) == [tag |-> "str", s |-> text]

SsA == [type |-> "ss", name |-> "a", server |-> "h1", port |-> IntValue("443"),
        cipher |-> "aes-256-gcm", password |-> "pw"]
SsB == [type |-> "ss", name |-> "b", server |-> "h1", port |-> StrValue("443"),
        cipher |-> "aes-256-gcm", password |-> "pw"]
VmessA == [type |-> "vmess", name |-> "a", server |-> "h1", port |-> IntValue("443"),
           uuid |-> "u1"]
VmessB == [type |-> "vmess", name |-> "b", server |-> "h1", port |-> IntValue("443"),
           uuid |-> "u1", alterId |-> IntValue("0"), network |-> "tcp"]
TrojanA == [type |-> "TROJAN", name |-> "a", server |-> "h2", port |-> IntValue("443"),
            password |-> "pw"]
VlessA == [type |-> "vless", name |-> "a", server |-> "h1", port |-> IntValue("443"),
           uuid |-> "u1"]
VlessB == [type |-> "vless", name |-> "b", server |-> "h1", port |-> IntValue("443"),
           uuid |-> "u1"]
Descriptors == {SsA, SsB, VmessA, VmessB, TrojanA, VlessA, VlessB}

MaxBatch == 2
Batches == UNION {[1..n -> Descriptors] : n \in 0..MaxBatch}

\* node_data.get(key, default) for a string value
Get(node_data, key, default) ==
    IF key \in DOMAIN node_data THEN node_data[key] ELSE default

\* str(node_data.get(key, default)) for a port or an alterId
GetStr(node_data, key, default) ==
    IF key \in DOMAIN node_data THEN node_data[key].s ELSE default

\* str.lower() on the type names that occur
Lower(text) ==
    CASE text = "SS" -> "ss"
      [] text = "VMESS" -> "vmess"
      [] text = "TROJAN" -> "trojan"
      [] OTHER -> text

\* hashlib.md5(json.dumps(fields, sort_keys=True).encode()).hexdigest(): the
\* digest stands for the dict that was serialized, with its keys in order.
Md5OfJson(fields) == [md5 |-> fields]

\* generate_fingerprint(node_data)
GenerateFingerprint(node_data) ==
    LET node_type == Lower(Get(node_data, "type", "unknown"))
        common == [type |-> node_type,
                   server |-> Get(node_data, "server", ""),
                   port |-> GetStr(node_data, "port", "")]
    IN  IF node_type = "ss"
        THEN Md5OfJson([type |-> common.type, server |-> common.server,
                        port |-> common.port,
                        cipher |-> Get(node_data, "cipher", ""),
                        password |-> Get(node_data, "password", "")])
        ELSE IF node_type = "vmess"
        THEN Md5OfJson([type |-> common.type, server |-> common.server,
                        port |-> common.port,
                        uuid |-> Get(node_data, "uuid", ""),
                        alterId |-> GetStr(node_data, "alterId", "0"),
                        network |-> Get(node_data, "network", "tcp")])
        ELSE IF node_type = "trojan"
        THEN Md5OfJson([type |-> common.type, server |-> common.server,
                        port |-> common.port,
                        password |-> Get(node_data, "password", ""),
                        sni |-> Get(node_data, "sni", "")])
        ELSE Md5OfJson(node_data)

\* generate_fingerprint raises on an element that is no dict (a string has
\* no get).
FingerprintRaises(node_data) == "scalar" \in DOMAIN node_data

RECURSIVE AddNodesFrom(_, _, _, _, _, _)
\* add_nodes(result, seen, nodes, url, source_type) from node i on: the
\* entries of result['nodes'] and the seen-set afterwards, what it added to
\* NodeCounter.total_nodes and NodeCounter.dup_nodes, and whether it raised.
AddNodesFrom(entries, seen, nodes, i, url, source_type) ==
    IF i > Len(nodes)
    THEN [nodes |-> entries, seen |-> seen, total |-> 0, dups |-> 0, raised |-> FALSE]
    ELSE IF FingerprintRaises(nodes[i])
    THEN [nodes |-> entries, seen |-> seen, total |-> 0, dups |-> 0, raised |-> TRUE]
    ELSE LET node_fingerprint == GenerateFingerprint(nodes[i])
             rest == IF node_fingerprint \notin seen
                     THEN AddNodesFrom(Append(entries, [source_type |-> source_type,
                                                        url |-> url, data |-> nodes[i]]),
                                       seen \cup {node_fingerprint}, nodes, i + 1,
                                       url, source_type)
                     ELSE AddNodesFrom(entries, seen, nodes, i + 1, url, source_type)
         IN  [rest EXCEPT !.total = @ + 1,
                          !.dups = @ + (IF node_fingerprint \in seen THEN 1 ELSE 0)]

\* add_nodes starting every call from an empty seen-set
AddNodes_OwnSeen(entries, seen, nodes, url, source_type) ==
    AddNodesFrom(entries, {}, nodes, 1, url, source_type)

AddNodes(entries, seen, nodes, url, source_type) ==
    AddNodesFrom(entries, seen, nodes, 1, url, source_type)

\* parse_node_links on one link whose content decodes, in the text stage, to
\* the given descriptors: the 'nodes' of its result.
ParsedNodes(nodes) == AddNodes(<<>>, {}, nodes, "link1", "text").nodes

RECURSIVE MergeLoop(_, _, _, _)
\* "for node in ...: fingerprint = ...; if fingerprint not in seen: ..."
MergeLoop(nodes, i, seen, out) ==
    IF i > Len(nodes) THEN [seen |-> seen, merged |-> out]
    ELSE LET fingerprint == GenerateFingerprint(nodes[i]) IN
         IF fingerprint \notin seen
         THEN MergeLoop(nodes, i + 1, seen \cup {fingerprint}, Append(out, nodes[i]))
         ELSE MergeLoop(nodes, i + 1, seen, out)

\* merge_nodes whose history loop appends every history node unchecked
MergeNodes_HistoryUnchecked(fresh, history_nodes) ==
    LET seen == {GenerateFingerprint(history_nodes[i]) : i \in 1..Len(history_nodes)}
    IN  MergeLoop(fresh.nodes, 1, seen, history_nodes).merged

\* merge_nodes(new_nodes, history_nodes): the history first, then
\* new_nodes.get('nodes', []), with one seen-set.
MergeNodes(fresh, history_nodes) ==
    LET h == MergeLoop(history_nodes, 1, {}, <<>>)
    IN  MergeLoop(fresh.nodes, 1, h.seen, h.merged).merged

NoSwap == [ab |-> <<>>, ba |-> <<>>, pab |-> <<>>, pba |-> <<>>]

MergeIdle ==
    /\ decoded = <<>>
    /\ history = <<>>
    /\ new_nodes = [nodes |-> <<>>]
    /\ merged = <<>>
    /\ swapped = NoSwap
    /\ gpc = "start"

\* main: "new_nodes = NodeProcessor.parse_node_links(...)"
ParseLinks ==
    /\ gpc = "start"
    /\ new_nodes' = [nodes |-> ParsedNodes(decoded)]
    /\ gpc' = "parsed"
    /\ UNCHANGED <<decoded, history, merged, swapped>>

\* main: "merged_nodes = HistoryManager.merge_nodes(new_nodes, history_nodes)"
Merge ==
    /\ gpc = "parsed"
    /\ merged' = MergeNodes(new_nodes, history)
    /\ gpc' = "merged"
    /\ UNCHANGED <<decoded, history, new_nodes, swapped>>

\* merge_nodes applied to the two descriptor sets in either role: given as
\* they are (ab, ba), and with the fresh one as parse_node_links gives it
\* (pab, pba).
MergeSwapped ==
    /\ gpc = "merged"
    /\ swapped' = [ab |-> MergeNodes([nodes |-> decoded], history),
                   ba |-> MergeNodes([nodes |-> history], decoded),
                   pab |-> MergeNodes([nodes |-> ParsedNodes(decoded)], history),
                   pba |-> MergeNodes([nodes |-> ParsedNodes(history)], decoded)]
    /\ gpc' = "swapped"
    /\ UNCHANGED <<decoded, history, new_nodes, merged>>

(***************************************************************************)
(* The line decoders of the classifier (src/src/nodesjob.py, class         *)
(* NodeProcessor).                                                         *)
(*                                                                         *)
(* A line is given by its parts. A line with an authority is               *)
(* scheme://[user@]host[:port][?query][#fragment]: "at" and "colon" say    *)
(* whether the separators are there, and no part holds a separator itself. *)
(* A Base64 payload is given by what it decodes to, or as undecodable.     *)
(***************************************************************************)
None == [none |-> TRUE]

\* The name a decoder gives a node whose line has none (a Chinese literal in
\* the source).
UNNAMED_NODE == "unnamed node"

\* urllib.parse.quote and unquote on the names that occur
Quote(text) ==
    CASE text = "a b" -> "a%20b"
      [] text = "unnamed node" -> "unnamed%20node"
      [] OTHER -> text
Unquote(text) ==
    CASE text = "a%20b" -> "a b"
      [] text = "unnamed%20node" -> "unnamed node"
      [] OTHER -> text

EmptyQuery == <<>>

\* query.get(key, [default])[0] on the result of parse_qs, which leaves out
\* the keys with a blank value
QueryGet(query, key, default) ==
    IF key \in DOMAIN query /\ query[key] # "" THEN query[key] ELSE default

UrlLine(scheme, at, user, host, colon, port, query, fragment) ==
    [scheme |-> scheme, at |-> at, user |-> user, host |-> host, colon |-> colon,
     port |-> port, query |-> query, fragment |-> fragment]

\* "unquote(parsed.fragment) if parsed.fragment else ..."
FragmentName(line) ==
    IF line.fragment # "" THEN Unquote(line.fragment) ELSE UNNAMED_NODE

\* parsed.netloc.split(':') into exactly two parts: the text before the colon
\* and the text after it
NetlocServer(line) == IF line.at THEN line.user \o "@" \o line.host ELSE line.host

\* _parse_vmess(line)
ParseVmess(line) ==
    IF ~line.payload.valid THEN None
    ELSE IF line.payload.kind # "object" THEN None
    ELSE LET config == line.payload.fields IN
         IF ~({"add", "port", "id"} \subseteq DOMAIN config) THEN None
         ELSE [type |-> "vmess",
               name |-> IF "ps" \in DOMAIN config THEN config.ps ELSE UNNAMED_NODE,
               server |-> config.add,
               port |-> config.port,
               uuid |-> config.id,
               alterId |-> IF "aid" \in DOMAIN config THEN config.aid ELSE IntValue("0"),
               network |-> IF "net" \in DOMAIN config THEN config.net ELSE "tcp",
               tls |-> IF "tls" \in DOMAIN config /\ config.tls # "" THEN "tls" ELSE ""]

\* _parse_ss(line)
ParseSs(line) ==
    LET text == line.payload IN
    IF ~text.valid THEN None
    ELSE IF ~text.at THEN None
    ELSE IF ~text.auth_colon THEN None
    ELSE IF ~text.colon THEN None
    ELSE [type |-> "ss",
          name |-> IF line.hash THEN Unquote(line.fragment) ELSE "",
          server |-> text.host,
          port |-> StrValue(text.port),
          password |-> text.password,
          cipher |-> text.method]

\* _parse_trojan(line): the dict literal names 'type' twice, and the later
\* value, the transport of the query, is the one the dict keeps.
ParseTrojan(line) ==
    IF ~line.at THEN None
    ELSE IF ~line.colon THEN None
    ELSE [type |-> QueryGet(line.query, "type", "tcp"),
          name |-> FragmentName(line),
          server |-> line.host,
          port |-> StrValue(line.port),
          password |-> line.user,
          sni |-> QueryGet(line.query, "sni", ""),
          security |-> QueryGet(line.query, "security", "tls")]

\* _parse_vless(line)
ParseVless(line) ==
    IF ~line.at THEN None
    ELSE IF ~line.colon THEN None
    ELSE [type |-> "vless",
          name |-> FragmentName(line),
          server |-> line.host,
          port |-> StrValue(line.port),
          uuid |-> line.user,
          security |-> QueryGet(line.query, "security", "none"),
          sni |-> QueryGet(line.query, "sni", ""),
          flow |-> QueryGet(line.query, "flow", ""),
          network |-> QueryGet(line.query, "type", "tcp")]

\* _parse_hysteria2(line)
ParseHysteria2(line) ==
    IF ~line.colon THEN None
    ELSE [type |-> "hysteria2",
          name |-> FragmentName(line),
          server |-> NetlocServer(line),
          port |-> StrValue(line.port),
          protocol |-> QueryGet(line.query, "protocol", "udp"),
          auth |-> QueryGet(line.query, "auth", ""),
          obfs |-> QueryGet(line.query, "obfs", ""),
          peer |-> QueryGet(line.query, "peer", "")]

\* _parse_tcp(line)
ParseTcp(line) ==
    IF ~line.colon THEN None
    ELSE [type |-> "tcp",
          name |-> FragmentName(line),
          server |-> NetlocServer(line),
          port |-> StrValue(line.port)]

\* _parse_ws(line)
ParseWs(line) ==
    IF ~line.colon THEN None
    ELSE [type |-> "ws",
          name |-> FragmentName(line),
          server |-> NetlocServer(line),
          port |-> StrValue(line.port),
          host |-> QueryGet(line.query, "host", ""),
          path |-> QueryGet(line.query, "path", "/")]

\* _parse_ssr(line): the payload is server:port:protocol:method:obfs:password
\* and "/?" with the parameters; the password and the parameter values are
\* Base64 texts themselves, given here by what they decode to.
ParseSsr(line) ==
    LET text == line.payload IN
    IF ~text.valid THEN None
    ELSE IF ~text.has_params THEN None
    ELSE IF ~text.six_fields THEN None
    ELSE IF ~text.password_valid THEN None
    ELSE [type |-> "ssr",
          name |-> QueryGet(text.query, "remarks", UNNAMED_NODE),
          server |-> text.server,
          port |-> StrValue(text.port),
          protocol |-> text.protocol,
          cipher |-> text.method,
          obfs |-> text.obfs,
          password |-> text.password,
          obfs_param |-> QueryGet(text.query, "obfsparam", ""),
          protocol_param |-> QueryGet(text.query, "protoparam", ""),
          group |-> QueryGet(text.query, "group", "")]

\* _parse_grpc(line)
ParseGrpc(line) ==
    IF ~line.at THEN None
    ELSE IF ~line.colon THEN None
    ELSE [type |-> "grpc",
          name |-> FragmentName(line),
          server |-> line.host,
          port |-> StrValue(line.port),
          uuid |-> line.user,
          serviceName |-> QueryGet(line.query, "serviceName", ""),
          security |-> QueryGet(line.query, "security", "none")]

\* _parse_httpupgrade(line)
ParseHttpupgrade(line) ==
    IF ~line.colon THEN None
    ELSE [type |-> "httpupgrade",
          name |-> FragmentName(line),
          server |-> NetlocServer(line),
          port |-> StrValue(line.port),
          host |-> QueryGet(line.query, "host", ""),
          path |-> QueryGet(line.query, "path", "/")]

\* _parse_single_line(line): the decoder of the line's scheme; None for a
\* blank line, an unknown scheme and every exception of a decoder.
ParseSingleLine(line) ==
    IF line.scheme = "" THEN None
    ELSE IF line.scheme = "vmess" THEN ParseVmess(line)
    ELSE IF line.scheme = "ss" THEN ParseSs(line)
    ELSE IF line.scheme = "trojan" THEN ParseTrojan(line)
    ELSE IF line.scheme = "vless" THEN ParseVless(line)
    ELSE IF line.scheme = "hysteria2" THEN ParseHysteria2(line)
    ELSE IF line.scheme = "tcp" THEN ParseTcp(line)
    ELSE IF line.scheme = "ws" THEN ParseWs(line)
    ELSE IF line.scheme = "ssr" THEN ParseSsr(line)
    ELSE IF line.scheme = "grpc" THEN ParseGrpc(line)
    ELSE IF line.scheme = "httpupgrade" THEN ParseHttpupgrade(line)
    ELSE None

RECURSIVE ParseTxtFrom_FileFatal(_, _, _)
\* The loop over the lines given up at the first line that does not decode.
ParseTxtFrom_FileFatal(lines, i, nodes) ==
    IF i > Len(lines) THEN nodes
    ELSE LET node == ParseSingleLine(lines[i]) IN
         IF node = None THEN nodes
         ELSE ParseTxtFrom_FileFatal(lines, i + 1, Append(nodes, node))

RECURSIVE ParseTxtFrom(_, _, _)
\* "for line in content.splitlines():" from line i on
ParseTxtFrom(lines, i, nodes) ==
    IF i > Len(lines) THEN nodes
    ELSE LET node == ParseSingleLine(lines[i]) IN
         IF node = None THEN ParseTxtFrom(lines, i + 1, nodes)
         ELSE ParseTxtFrom(lines, i + 1, Append(nodes, node))

\* _parse_txt_content(content)
ParseTxtContent(lines) ==
    LET nodes == ParseTxtFrom(lines, 1, <<>>)
    IN  [success |-> nodes # <<>>, data |-> nodes]

(***************************************************************************)
(* The content of a fetched file and the cascade of parse_node_links.       *)
(*                                                                         *)
(* A content is a text wrapped in a number of Base64 layers. The text has  *)
(* its lines, what yaml.safe_load makes of it (doc), and whether the text  *)
(* itself passes _is_base64: a word of the Base64 alphabet whose bytes are *)
(* no UTF-8 ("garbled"), or the empty text ("empty").                      *)
(***************************************************************************)
WordLine == [scheme |-> "other"]
BlankLine == [scheme |-> ""]

InvalidDoc == [kind |-> "invalid"]
ScalarDoc == [kind |-> "scalar"]
MapDoc(proxies) == [kind |-> "map", proxies |-> proxies]

\* An element of 'proxies' that is a string, holding the four key names as
\* substrings or not, and one that is a number.
StringElement(holds) == [scalar |-> "string", holds_keys |-> holds]
NumberElement == [scalar |-> "number"]

Text(lines, doc) == [layers |-> 0, b64 |-> "no", lines |-> lines, doc |-> doc]
Wrapped(text, n) == [text EXCEPT !.layers = n]
GarbledWord == [layers |-> 0, b64 |-> "garbled", lines |-> <<WordLine>>, doc |-> ScalarDoc]
EmptyText == [layers |-> 0, b64 |-> "empty", lines |-> <<>>, doc |-> ScalarDoc]

\* _is_base64(content)
IsBase64(content) == content.layers > 0 \/ content.b64 # "no"

\* base64.b64decode(encoded_content).decode('utf-8')
B64Decode(content) ==
    IF content.layers > 0 THEN [content EXCEPT !.layers = @ - 1] ELSE content

\* "if depth > 2"
BeyondNesting(depth) == depth > 2

RECURSIVE ParseBase64Config(_, _)
\* _parse_base64_config(encoded_content, depth): the content it returns and
\* the number of decodes it applied on the way.
ParseBase64Config(encoded_content, depth) ==
    IF BeyondNesting(depth) THEN [content |-> encoded_content, decodes |-> 0]
    ELSE IF ~IsBase64(encoded_content) THEN [content |-> encoded_content, decodes |-> 0]
    ELSE IF encoded_content.layers = 0 /\ encoded_content.b64 = "garbled"
    THEN [content |-> encoded_content, decodes |-> 0]
    ELSE LET decoded_content == B64Decode(encoded_content) IN
         IF IsBase64(decoded_content)
         THEN LET r == ParseBase64Config(decoded_content, depth + 1)
              IN  [content |-> r.content, decodes |-> r.decodes + 1]
         ELSE [content |-> decoded_content, decodes |-> 1]

\* content.splitlines(): a text still wrapped is one line of Base64 letters
LinesOf(content) == IF content.layers > 0 THEN <<WordLine>> ELSE content.lines

\* yaml.safe_load(content): a text still wrapped is one scalar
DocOf(content) == IF content.layers > 0 THEN ScalarDoc ELSE content.doc

\* "all(key in proxy for key in ['name', 'type', 'server', 'port'])"
HasRequiredKeys(proxy) ==
    IF "scalar" \in DOMAIN proxy THEN proxy.holds_keys
    ELSE {"name", "type", "server", "port"} \subseteq DOMAIN proxy

\* _parse_clash_config_content(content): the key test raises on a number,
\* and every exception gives the failure result.
ParseClashConfigContent(doc) ==
    IF doc.kind # "map" THEN [success |-> FALSE, data |-> <<>>]
    ELSE IF \E i \in 1..Len(doc.proxies) : doc.proxies[i] = NumberElement
    THEN [success |-> FALSE, data |-> <<>>]
    ELSE LET proxies == SelectSeq(doc.proxies, HasRequiredKeys)
         IN  [success |-> proxies # <<>>, data |-> proxies]

\* The result parse_node_links starts from
NewResult(n) ==
    [total_links |-> n, success_count |-> 0, failure_count |-> 0, total_nodes |-> 0,
     nodes |-> <<>>, failures |-> <<>>]

NoNodeCounter == [total_nodes |-> 0, dup_nodes |-> 0]

\* The end of a successful stage: "result['success_count'] += 1" and then
\* add_nodes, whose exception reaches the handler of the loop.
StageSuccess(res, sn, cnt, link, data, source_type, decodes) ==
    LET a == AddNodes(res.nodes, sn, data, link.url, source_type)
        res1 == [res EXCEPT !.success_count = @ + 1, !.nodes = a.nodes]
    IN  [result |-> IF a.raised
                    THEN [res1 EXCEPT !.failure_count = @ + 1,
                                      !.failures = Append(@, [url |-> link.url,
                                                              error |-> "exception"])]
                    ELSE res1,
         seen |-> a.seen,
         node_counter |-> [total_nodes |-> cnt.total_nodes + a.total,
                           dup_nodes |-> cnt.dup_nodes + a.dups],
         report |-> [decodes |-> decodes, stage |-> source_type,
                     offered |-> SubSeq(data, 1, a.total),
                     raised |-> a.raised]]

\* The end of a round that added nothing: one failure is recorded.
LinkFailure(res, sn, cnt, link, error, decodes) ==
    [result |-> [res EXCEPT !.failure_count = @ + 1,
                            !.failures = Append(@, [url |-> link.url, error |-> error])],
     seen |-> sn,
     node_counter |-> cnt,
     report |-> [decodes |-> decodes, stage |-> "none", offered |-> <<>>,
                 raised |-> error = "exception"]]

\* One round of the loop of parse_node_links: the fetch, the Base64 unwrap,
\* the text stage, then the structured stage (tried twice by the code, with
\* the same outcome).
ProcessLink(res, sn, cnt, link) ==
    IF link.fetch # "ok" THEN LinkFailure(res, sn, cnt, link, "exception", 0)
    ELSE LET unwrapped == ParseBase64Config(link.content, 0)
             content == unwrapped.content
             txt_result == ParseTxtContent(LinesOf(content))
             clash_result == ParseClashConfigContent(DocOf(content))
         IN  IF txt_result.success
             THEN StageSuccess(res, sn, cnt, link, txt_result.data, "text",
                               unwrapped.decodes)
             ELSE IF clash_result.success
             THEN StageSuccess(res, sn, cnt, link, clash_result.data, "clash",
                               unwrapped.decodes)
             ELSE LinkFailure(res, sn, cnt, link, "unrecognized", unwrapped.decodes)

ParseIdle ==
    /\ links = <<>>
    /\ result = NewResult(0)
    /\ seen_set = {}
    /\ node_counter = NoNodeCounter
    /\ li = 1
    /\ ppc = "loop"
    /\ report = <<>>

\* parse_node_links: one round of "for index, url in enumerate(links, 1)"
ParseLink ==
    /\ ppc = "loop"
    /\ li <= Len(links)
    /\ LET r == ProcessLink(result, seen_set, node_counter, links[li])
       IN  /\ result' = r.result
           /\ seen_set' = r.seen
           /\ node_counter' = r.node_counter
           /\ report' = Append(report, r.report)
    /\ li' = li + 1
    /\ UNCHANGED <<links, ppc>>

\* parse_node_links: "result['total_nodes'] = len(result['nodes'])" and the
\* return, after the last link
ParseReturn ==
    /\ ppc = "loop"
    /\ li > Len(links)
    /\ result' = [result EXCEPT !.total_nodes = Len(result.nodes)]
    /\ ppc' = "returned"
    /\ UNCHANGED <<links, seen_set, node_counter, li, report>>

\* The lines of the sample files.
TcpLine == UrlLine("tcp", FALSE, "", "h1", TRUE, "80", EmptyQuery, "n")
\* "tcp://:80"
TcpNoHostLine == UrlLine("tcp", FALSE, "", "", TRUE, "80", EmptyQuery, "")
SsPayload ==
    [valid |-> TRUE, auth_colon |-> TRUE, method |-> "aes-256-gcm", password |-> "pw",
     at |-> TRUE, host |-> "h1", colon |-> TRUE, port |-> "443"]
SsLine(name) == [scheme |-> "ss", payload |-> SsPayload, hash |-> TRUE, fragment |-> name]
\* "ss://YWVzLTI1Ni1nY206cGFzc3dvcmQ=@": the payload is "aes-256-gcm:password",
\* and b64decode drops the "@" after it
SsNoServerLine ==
    [scheme |-> "ss",
     payload |-> [SsPayload EXCEPT !.at = FALSE, !.host = "", !.colon = FALSE, !.port = ""],
     hash |-> FALSE, fragment |-> ""]
VmessLine(ps) ==
    [scheme |-> "vmess",
     payload |-> [valid |-> TRUE, kind |-> "object",
                  fields |-> [add |-> "h1", port |-> IntValue("443"), id |-> "u1",
                              ps |-> ps]]]

\* The sample files: what a fetch may bring.
UriFile == Text(<<TcpLine>>, ScalarDoc)
BadSsFile == Text(<<SsNoServerLine>>, ScalarDoc)
MixedFile ==
    Text(<<VmessLine("a"), SsNoServerLine, WordLine, BlankLine, VmessLine("b"), SsLine("b")>>,
         ScalarDoc)
ClashFile == Text(<<WordLine>>, MapDoc(<<SsA, [name |-> "x", type |-> "ss"], VlessA>>))
\* a structured document one of whose scalars is a line with a known scheme
BothFile == Text(<<WordLine, TcpLine>>, MapDoc(<<VlessB>>))
NoHostFile == Text(<<TcpNoHostLine>>, ScalarDoc)
EmptyServerFile ==
    Text(<<WordLine>>, MapDoc(<<[type |-> "ss", name |-> "e", server |-> "",
                                 port |-> StrValue(""), cipher |-> "aes-256-gcm",
                                 password |-> "pw"]>>))
StringProxyFile == Text(<<WordLine>>, MapDoc(<<TrojanA, StringElement(TRUE)>>))
NumberProxyFile == Text(<<WordLine>>, MapDoc(<<SsA, NumberElement>>))
InvalidFile == Text(<<WordLine>>, InvalidDoc)

\* The deepest Base64 wrapping of a sample file.
MaxLayers == 4

\* A link and what its fetch brings.
LinkOf(url, content) == [url |-> url, fetch |-> "ok", content |-> content]
FailingLink == [url |-> "unreachable", fetch |-> "error", content |-> EmptyText]
WrappedUrl(n) ==
    CASE n = 1 -> "wrapped1" [] n = 2 -> "wrapped2" [] n = 3 -> "wrapped3"
      [] n = 4 -> "wrapped4" [] OTHER -> "wrapped5"
Links ==
    {LinkOf("uri", UriFile), LinkOf("badss", BadSsFile), LinkOf("mixed", MixedFile),
     LinkOf("clash", ClashFile), LinkOf("both", BothFile), LinkOf("nohost", NoHostFile),
     LinkOf("emptyserver", EmptyServerFile), LinkOf("stringproxy", StringProxyFile),
     LinkOf("numberproxy", NumberProxyFile), LinkOf("invalid", InvalidFile),
     LinkOf("word", GarbledWord), LinkOf("wrappedword", Wrapped(GarbledWord, 1)),
     FailingLink}
    \cup {LinkOf(WrappedUrl(n), Wrapped(UriFile, n)) : n \in 1..MaxLayers}

MaxLinks == 2
LinkLists == UNION {[1..n -> Links] : n \in 0..MaxLinks}

(***************************************************************************)
(* The URI generator (src/src/nodesjob.py, FileGenerator._generate_uri).   *)
(* A generated line is given by its parts, as the lines that are decoded.  *)
(***************************************************************************)
\* The parameters of a query string: the pairs whose value is not empty.
QueryOf(pairs) ==
    LET present == {i \in 1..Len(pairs) : pairs[i][2] # ""}
    IN  [k \in {pairs[i][1] : i \in present} |->
            pairs[CHOOSE i \in present : pairs[i][1] = k][2]]

\* _generate_uri(node_data)
GenerateUri(node_data) ==
    LET node_type == Get(node_data, "type", "")
        name == Quote(Get(node_data, "name", ""))
        server == Get(node_data, "server", "")
        port == GetStr(node_data, "port", "")
    IN  IF node_type = "ss"
        THEN [scheme |-> "ss",
              payload |-> [valid |-> TRUE, auth_colon |-> TRUE,
                           method |-> Get(node_data, "cipher", ""),
                           password |-> Get(node_data, "password", ""),
                           at |-> TRUE, host |-> server, colon |-> TRUE, port |-> port],
              hash |-> TRUE, fragment |-> name]
        ELSE IF node_type = "vmess"
        THEN [scheme |-> "vmess",
              payload |-> [valid |-> TRUE, kind |-> "object",
                           fields |-> [v |-> "2",
                                       ps |-> Get(node_data, "name", ""),
                                       add |-> server,
                                       port |-> Get(node_data, "port", StrValue("")),
                                       id |-> Get(node_data, "uuid", ""),
                                       aid |-> Get(node_data, "alterId", StrValue("0")),
                                       scy |-> "auto",
                                       net |-> Get(node_data, "network", "tcp"),
                                       type |-> "none",
                                       tls |-> IF Get(node_data, "tls", "") # ""
                                               THEN "tls" ELSE ""]]]
        ELSE IF node_type = "trojan"
        THEN UrlLine("trojan", TRUE, Get(node_data, "password", ""), server, TRUE, port,
                     QueryOf(<<<<"security", "tls">>, <<"sni", Get(node_data, "sni", "")>>>>),
                     name)
        ELSE IF node_type = "vless"
        THEN UrlLine("vless", TRUE, Get(node_data, "uuid", ""), server, TRUE, port,
                     QueryOf(<<<<"security", Get(node_data, "security", "none")>>,
                               <<"sni", Get(node_data, "sni", "")>>,
                               <<"flow", Get(node_data, "flow", "")>>,
                               <<"type", Get(node_data, "network", "tcp")>>,
                               <<"host", Get(node_data, "host", "")>>,
                               <<"path", Get(node_data, "path", "/")>>>>),
                     name)
        ELSE IF node_type = "hysteria2"
        THEN UrlLine("hysteria2", FALSE, "", server, TRUE, port,
                     QueryOf(<<<<"protocol", Get(node_data, "protocol", "udp")>>,
                               <<"auth", Get(node_data, "auth", "")>>,
                               <<"obfs", Get(node_data, "obfs", "")>>,
                               <<"peer", Get(node_data, "peer", "")>>>>),
                     name)
        ELSE IF node_type = "tcp"
        THEN UrlLine("tcp", FALSE, "", server, TRUE, port, EmptyQuery, name)
        ELSE IF node_type \in {"ws", "httpupgrade"}
        THEN UrlLine(node_type, FALSE, "", server, TRUE, port,
                     QueryOf(<<<<"host", Get(node_data, "host", "")>>,
                               <<"path", Get(node_data, "path", "/")>>>>),
                     name)
        ELSE IF node_type = "ssr"
        THEN [scheme |-> "ssr",
              payload |-> [valid |-> TRUE, has_params |-> TRUE, six_fields |-> TRUE,
                           server |-> server, port |-> port,
                           protocol |-> Get(node_data, "protocol", "origin"),
                           method |-> Get(node_data, "cipher", "aes-256-cfb"),
                           obfs |-> Get(node_data, "obfs", "plain"),
                           password_valid |-> TRUE,
                           password |-> Get(node_data, "password", ""),
                           query |-> QueryOf(<<<<"obfsparam", Get(node_data, "obfs_param", "")>>,
                                               <<"protoparam",
                                                 Get(node_data, "protocol_param", "")>>,
                                               <<"remarks", Get(node_data, "name", "")>>,
                                               <<"group", Get(node_data, "group", "")>>>>)]]
        ELSE IF node_type = "grpc"
        THEN UrlLine("grpc", TRUE, Get(node_data, "uuid", ""), server, TRUE, port,
                     QueryOf(<<<<"serviceName", Get(node_data, "serviceName", "")>>,
                               <<"security", Get(node_data, "security", "none")>>>>),
                     name)
        ELSE None

(***************************************************************************)
(* Decoding a share line, generating a line from the descriptor and        *)
(* decoding that line again.                                               *)
(***************************************************************************)
\* The field values the share lines are built from.
Hosts == {"h1", "h2"}
Ports == {"443", "8080"}
Names == {"a", "a b", ""}

\* "ss://" + b64("aes-256-gcm:pw@host:port") + "#" + quote(name)
SsUri(host, port, name) ==
    [scheme |-> "ss",
     payload |-> [SsPayload EXCEPT !.host = host, !.port = port],
     hash |-> TRUE, fragment |-> Quote(name)]
\* "vmess://" + b64(json with add, port, id, aid, net, tls and ps)
VmessUri(host, port, name) ==
    [scheme |-> "vmess",
     payload |-> [valid |-> TRUE, kind |-> "object",
                  fields |-> [v |-> "2", ps |-> name, add |-> host,
                              port |-> IntValue(port), id |-> "u1",
                              aid |-> IntValue("0"), net |-> "tcp", tls |-> ""]]]
\* "trojan://pw@host:port?security=tls#name"
TrojanUri(host, port, name) ==
    UrlLine("trojan", TRUE, "pw", host, TRUE, port, [security |-> "tls"], Quote(name))
\* "vless://u1@host:port?security=tls&type=ws#name"
VlessUri(host, port, name) ==
    UrlLine("vless", TRUE, "u1", host, TRUE, port, [security |-> "tls", type |-> "ws"],
            Quote(name))
\* "ssr://" + b64("host:port:origin:aes-256-cfb:plain:" + b64("pw") + "/?remarks=" + b64(name))
SsrUri(host, port, name) ==
    [scheme |-> "ssr",
     payload |-> [valid |-> TRUE, has_params |-> TRUE, six_fields |-> TRUE,
                  server |-> host, port |-> port, protocol |-> "origin",
                  method |-> "aes-256-cfb", obfs |-> "plain", password_valid |-> TRUE,
                  password |-> "pw", query |-> QueryOf(<<<<"remarks", name>>>>)]]
\* "hysteria2://host:port?auth=pw#name"
Hysteria2Uri(host, port, name) ==
    UrlLine("hysteria2", FALSE, "", host, TRUE, port, [auth |-> "pw"], Quote(name))

ValidUris ==
    UNION {{SsUri(h, p, n), VmessUri(h, p, n), TrojanUri(h, p, n), VlessUri(h, p, n),
            SsrUri(h, p, n), Hysteria2Uri(h, p, n)} : <<h, p, n>> \in Hosts \X Ports \X Names}

UriIdle ==
    /\ uri = None
    /\ descriptor = None
    /\ generated = None
    /\ redecoded = None
    /\ upc = "idle"

\* NodeProcessor._parse_single_line(uri)
DecodeUri ==
    /\ upc = "start"
    /\ descriptor' = ParseSingleLine(uri)
    /\ upc' = "decoded"
    /\ UNCHANGED <<uri, generated, redecoded>>

\* FileGenerator._generate_uri(descriptor)
GenerateFromDescriptor ==
    /\ upc = "decoded"
    /\ descriptor # None
    /\ generated' = GenerateUri(descriptor)
    /\ upc' = "generated"
    /\ UNCHANGED <<uri, descriptor, redecoded>>

\* NodeProcessor._parse_single_line(generated)
DecodeGenerated ==
    /\ upc = "generated"
    /\ generated # None
    /\ redecoded' = ParseSingleLine(generated)
    /\ upc' = "redecoded"
    /\ UNCHANGED <<uri, descriptor, generated>>

(***************************************************************************)
(* Writing the outputs: src/src/nodesjob.py, class FileGenerator.          *)
(* A file is named by its stem and its part number (0: the file without a  *)
(* number), and its content is the list of lines or proxies written to it. *)
(***************************************************************************)
\* "len(...) > 5000" in save_results
SPLIT_THRESHOLD == 5000
\* the chunk_size save_results passes to _write_split_files
CHUNK_SIZE == 5000

\* _convert_to_clash(node_data)
ConvertToClash(node_data) ==
    IF ~({"server", "port"} \subseteq DOMAIN node_data) THEN None
    ELSE IF "type" \notin DOMAIN node_data THEN None
    ELSE LET base_proxy == [name |-> Get(node_data, "name", ""),
                            type |-> node_data.type,
                            server |-> node_data.server,
                            port |-> node_data.port]
         IN  IF node_data.type = "ss"
             THEN [cipher |-> Get(node_data, "cipher", None),
                   password |-> Get(node_data, "password", None),
                   udp |-> TRUE] @@ base_proxy
             ELSE IF node_data.type = "vmess"
             THEN [uuid |-> Get(node_data, "uuid", None),
                   alterId |-> Get(node_data, "alterId", IntValue("0")),
                   cipher |-> "auto",
                   tls |-> Get(node_data, "tls", FALSE),
                   network |-> Get(node_data, "network", "tcp")] @@ base_proxy
             ELSE IF node_data.type = "trojan"
             THEN [password |-> Get(node_data, "password", None),
                   sni |-> Get(node_data, "sni", ""),
                   udp |-> TRUE] @@ base_proxy
             ELSE base_proxy

\* _process_node: the line a node adds to v2rayn_lines, or None
LineOfNode(node) ==
    IF node.source_type = "text" /\ "raw" \in DOMAIN node.data THEN node.data.raw
    ELSE GenerateUri(node.data)

\* The loop of save_results over node_results['nodes']: the lines and the
\* proxies that _process_node appends, in the order of the nodes.
ProcessNodes(nodes) ==
    LET uris == [i \in 1..Len(nodes) |-> LineOfNode(nodes[i])]
        proxies == [i \in 1..Len(nodes) |-> ConvertToClash(nodes[i].data)]
    IN  [lines |-> SelectSeq(uris, LAMBDA u : u # None),
         proxies |-> SelectSeq(proxies, LAMBDA c : c # None)]

\* split_into_chunks(data, chunk_size)
SplitIntoChunks(data, chunk_size) ==
    [k \in 1..((Len(data) + chunk_size - 1) \div chunk_size) |->
        SubSeq(data, (k - 1) * chunk_size + 1,
               IF k * chunk_size < Len(data) THEN k * chunk_size ELSE Len(data))]

FileName(stem, part) == [name |-> stem, part |-> part]

\* open(path, 'w') and the write that follows
WriteFile(dir, stem, part, content) ==
    [f \in DOMAIN dir \cup {FileName(stem, part)} |->
        IF f = FileName(stem, part) THEN content ELSE dir[f]]

RECURSIVE WritePairs(_, _, _, _)
\* "for i, (clash_part, v2rayn_part) in enumerate(zip(clash_chunks,
\* v2rayn_chunks), 1)": zip ends with the shorter of the two lists.
WritePairs(dir, clash_chunks, v2rayn_chunks, i) ==
    IF i > Len(clash_chunks) \/ i > Len(v2rayn_chunks) THEN dir
    ELSE WritePairs(WriteFile(WriteFile(dir, "subscription", i, v2rayn_chunks[i]),
                              "clash_config", i, clash_chunks[i]),
                    clash_chunks, v2rayn_chunks, i + 1)

\* _write_split_files(output_dir, clash_config, v2rayn_lines, chunk_size)
WriteSplitFiles(dir, proxies, lines, chunk_size) ==
    WritePairs(dir, SplitIntoChunks(proxies, chunk_size),
               SplitIntoChunks(lines, chunk_size), 1)

\* _write_files(output_dir, clash_config, v2rayn_lines)
WriteFiles(dir, proxies, lines) ==
    WriteFile(WriteFile(dir, "all_subscription", 0, lines), "all_clash_config", 0, proxies)

SaveIdle ==
    /\ node_results = [nodes |-> <<>>]
    /\ v2rayn_lines = <<>>
    /\ clash_config = <<>>
    /\ written = <<>>
    /\ fpc = "idle"

\* save_results(node_results, output_dir)
SaveResults ==
    /\ fpc = "start"
    /\ LET processed == ProcessNodes(node_results.nodes)
           split == IF Len(processed.proxies) > SPLIT_THRESHOLD
                       \/ Len(processed.lines) > SPLIT_THRESHOLD
                    THEN WriteSplitFiles(written, processed.proxies, processed.lines,
                                         CHUNK_SIZE)
                    ELSE written
       IN  /\ v2rayn_lines' = processed.lines
           /\ clash_config' = processed.proxies
           /\ written' = WriteFiles(split, processed.proxies, processed.lines)
    /\ fpc' = "saved"
    /\ UNCHANGED node_results

\* "node_results.get('nodes', [])": a dict has get, a list has not, and the
\* AttributeError is caught by save_results, which returns success False.
AcceptsGet(value) == value.kind = "dict"

\* main: "save_result = FileGenerator.save_results(merged_nodes)" on the list
\* merge_nodes returned, "if not save_result['success']: raise RuntimeError"
\* and the handler of main, which ends the run. The probes, the second
\* save_results and update_status come after a save that succeeded.
MainSave ==
    /\ gpc = "merged"
    /\ LET merged_nodes == [kind |-> "list", items |-> merged] IN
       /\ node_results' = merged_nodes
       /\ IF AcceptsGet(merged_nodes)
          THEN LET processed == ProcessNodes(merged_nodes.nodes)
                   split == IF Len(processed.proxies) > SPLIT_THRESHOLD
                               \/ Len(processed.lines) > SPLIT_THRESHOLD
                            THEN WriteSplitFiles(written, processed.proxies,
                                                 processed.lines, CHUNK_SIZE)
                            ELSE written
               IN  /\ v2rayn_lines' = processed.lines
                   /\ clash_config' = processed.proxies
                   /\ written' = WriteFiles(split, processed.proxies, processed.lines)
                   /\ gpc' = "saved"
          ELSE /\ gpc' = "save_failed"
               /\ UNCHANGED <<v2rayn_lines, clash_config, written>>
    /\ UNCHANGED <<decoded, history, new_nodes, merged, swapped, fpc>>

\* The nodes save_results is given: entries of the merged set, each with its
\* own port. A node of a kind _generate_uri knows gives a line and a proxy, a
\* proxy of another kind (here http) gives a proxy only.
MaxOver == 2
MaxMixed == 4
SavedNode(kind, i) ==
    [source_type |-> "clash", url |-> "u1",
     data |-> IF kind = "ss"
              THEN [type |-> "ss", name |-> "a", server |-> "h1", port |-> IntValue(i),
                    cipher |-> "aes-256-gcm", password |-> "pw"]
              ELSE [type |-> "http", name |-> "a", server |-> "h1", port |-> IntValue(i)]]
SavedLists ==
    {[i \in 1..n |-> IF i <= n - MaxMixed THEN SavedNode("ss", i)
                     ELSE SavedNode(kinds[i - (n - MaxMixed)], i)] :
        n \in (CHUNK_SIZE - MaxOver)..(CHUNK_SIZE + MaxOver),
        kinds \in [1..MaxMixed -> {"ss", "http"}]}

(***************************************************************************)
(* The specifications.                                                     *)
(***************************************************************************)
InitQuota ==
    /\ QuotaInit /\ WorkersIdle /\ RepoIdle /\ CrawlIdle /\ MergeIdle /\ ParseIdle
    /\ UriIdle /\ SaveIdle /\ BudgetIdle /\ RequestIdle
NextQuota ==
    \/ CheckLimit /\ UNCHANGED notQuota
    \/ Tick /\ UNCHANGED notQuota
SpecQuota == InitQuota /\ [][NextQuota]_vars

\* check_limit called at any times, from a window in which no call or all
\* but two of the calls below the near-limit threshold have been made.
InitBudget ==
    /\ WorkersIdle /\ RepoIdle /\ CrawlIdle /\ MergeIdle /\ ParseIdle
    /\ UriIdle /\ SaveIdle /\ RequestIdle
    /\ count \in {0, NEAR_LIMIT - 2}
    /\ last_reset = 0
    /\ now = 0
    /\ ticks = 0
    /\ sleeps = 0
    /\ lastCheck = NoCheck
    /\ returns_at = IF count = 0 THEN <<>> ELSE [t \in {0} |-> count]
    /\ made = 0
NextBudget ==
    \/ CountedCall /\ UNCHANGED notBudget
    \/ BudgetTick /\ UNCHANGED notBudget
SpecBudget == InitBudget /\ [][NextBudget]_vars

\* safe_request calls, from a window in which no call or all but two of the
\* calls below the near-limit threshold have been made, each with its request.
InitRequest ==
    /\ WorkersIdle /\ RepoIdle /\ CrawlIdle /\ MergeIdle /\ ParseIdle
    /\ UriIdle /\ SaveIdle /\ BudgetIdle
    /\ count \in {0, NEAR_LIMIT - 2}
    /\ last_reset = 0
    /\ now = 0
    /\ ticks = 0
    /\ sleeps = 0
    /\ lastCheck = NoCheck
    /\ qpc = "idle"
    /\ attempt = 0
    /\ outcome = "none"
    /\ checks = 0
    /\ gets = 0
    /\ uncounted = count
    /\ surfaced = "none"
NextRequest ==
    \/ RequestStart /\ UNCHANGED notRequest
    \/ RequestCheck /\ UNCHANGED notRequest
    \/ RequestGet /\ UNCHANGED notRequest
    \/ RequestRetry /\ UNCHANGED notRequest
SpecRequest == InitRequest /\ [][NextRequest]_vars


\* The workers start in a window in which a single caller has already made
\* some calls: none, or two less than the near-limit threshold.
InitWorkers ==
    /\ count \in {0, NEAR_LIMIT - 2}
    /\ last_reset = 0
    /\ now = 0
    /\ ticks = 0
    /\ sleeps = 0
    /\ lastCheck = NoCheck
    /\ wpc = [w \in Workers |-> "idle"]
    /\ wcur = [w \in Workers |-> 0]
    /\ wreg = [w \in Workers |-> 0]
    /\ wwait = [w \in Workers |-> 0]
    /\ wstat = [base |-> count, started |-> 0, completed |-> 0, resets |-> 0]
    /\ RepoIdle
    /\ CrawlIdle
    /\ MergeIdle
    /\ ParseIdle
    /\ UriIdle /\ SaveIdle /\ BudgetIdle /\ RequestIdle

NextWorkers ==
    \/ (\E w \in Workers : WCall(w)) /\ UNCHANGED notWorkers
    \/ (\E w \in Workers : WTestWindow(w)) /\ UNCHANGED notWorkers
    \/ (\E w \in Workers : WZeroCount(w)) /\ UNCHANGED notWorkers
    \/ (\E w \in Workers : WRestartWindow(w)) /\ UNCHANGED notWorkers
    \/ (\E w \in Workers : WLoadCount(w)) /\ UNCHANGED notWorkers
    \/ (\E w \in Workers : WStoreCount(w)) /\ UNCHANGED notWorkers
    \/ (\E w \in Workers : WTestLimit(w)) /\ UNCHANGED notWorkers
    \/ (\E w \in Workers : WWake(w)) /\ UNCHANGED notWorkers
    \/ (\E w \in Workers : WClearCount(w)) /\ UNCHANGED notWorkers
    \/ WTick /\ UNCHANGED notWorkers

SpecWorkers == InitWorkers /\ [][NextWorkers]_vars


InitRepo ==
    /\ QuotaInit /\ WorkersIdle /\ RepoIdle /\ CrawlIdle /\ MergeIdle /\ ParseIdle
    /\ UriIdle /\ SaveIdle /\ BudgetIdle /\ RequestIdle
NextRepo ==
    \/ NewManager /\ UNCHANGED notRepo
    \/ QueryShouldProcess /\ UNCHANGED notRepo
    \/ ReturnShouldProcess /\ UNCHANGED notRepo
    \/ UpdateStatus /\ UNCHANGED notRepo
    \/ SaveWrite /\ UNCHANGED notRepo
    \/ Exit /\ UNCHANGED notRepo
    \/ Crash /\ UNCHANGED notRepo
SpecRepo == InitRepo /\ [][NextRepo]_vars

\* One find_node_files call on any tree, with at most one directory whose
\* listing cannot be fetched.
InitCrawl ==
    /\ QuotaInit /\ WorkersIdle /\ RepoIdle /\ MergeIdle /\ ParseIdle
    /\ UriIdle /\ SaveIdle /\ BudgetIdle /\ RequestIdle
    /\ \E t \in Trees : tree = [k \in RepoKeys |-> t]
    /\ \E bad \in {{}} \cup {{d} : d \in DirIds} :
           failing = [k \in RepoKeys |-> IF k = "a/x" THEN bad ELSE {}]
    /\ fetches = <<>>
    /\ node_links = <<>>
    /\ counter = NoCounter
    /\ mpc = "crawl"
    /\ repos = <<[html_url |-> [path |-> "a/x", slash |-> FALSE],
                  pushed_at |-> BadMarker, node_id |-> "n1"],
                 [html_url |-> [path |-> "b/y", slash |-> FALSE],
                  pushed_at |-> BadMarker, node_id |-> "n1"]>>
    /\ mi = 1
NextCrawl == MainCrawl /\ UNCHANGED notCrawl
SpecCrawl == InitCrawl /\ [][NextCrawl]_vars

\* One find_node_files call on a repository with listings of several pages;
\* a directory in "failing" is answered with an error or with a value that is
\* no list.
InitPages ==
    /\ QuotaInit /\ WorkersIdle /\ RepoIdle /\ MergeIdle /\ ParseIdle
    /\ UriIdle /\ SaveIdle /\ BudgetIdle /\ RequestIdle
    /\ \E t \in PagedTrees : tree = [k \in RepoKeys |-> t]
    /\ \E bad \in {{}, {0}, {1}} : failing = [k \in RepoKeys |-> bad]
    /\ fetches = <<>>
    /\ node_links = <<>>
    /\ counter = NoCounter
    /\ mpc = "crawl"
    /\ repos = <<[html_url |-> [path |-> "a/x", slash |-> FALSE],
                  pushed_at |-> BadMarker, node_id |-> "n1"]>>
    /\ mi = 1
NextPages == MainCrawl /\ UNCHANGED notCrawl
SpecPages == InitPages /\ [][NextPages]_vars

\* A run of main up to the end of its crawl loop. The run finds whatever
\* state file earlier update_status calls have left.
Init ==
    /\ QuotaInit /\ WorkersIdle /\ MergeIdle /\ ParseIdle
    /\ UriIdle /\ SaveIdle /\ BudgetIdle /\ RequestIdle
    /\ sfile \in StoredFiles
    /\ repo_status = <<>>
    /\ rpc = "none"
    /\ pending = <<>>
    /\ sv = NoSave
    /\ recorded = {}
    /\ everRecorded = {}
    /\ reloaded = FALSE
    /\ spResult = NoQuery
    /\ tree \in [RepoKeys -> MainTrees]
    /\ failing = [k \in RepoKeys |-> {}]
    /\ fetches = <<>>
    /\ node_links = <<>>
    /\ counter = NoCounter
    /\ mpc = "start"
    /\ repos = <<>>
    /\ mi = 1
Next ==
    \/ MainSearch /\ UNCHANGED notCrawl
    \/ MainCrawl /\ UNCHANGED notCrawl
Spec == Init /\ [][Next]_vars

\* The parse and merge steps of main on any decoded batch and any history.
InitMerge ==
    /\ QuotaInit /\ WorkersIdle /\ RepoIdle /\ CrawlIdle /\ ParseIdle
    /\ UriIdle /\ SaveIdle /\ BudgetIdle /\ RequestIdle
    /\ decoded \in Batches
    /\ history \in Batches
    /\ new_nodes = [nodes |-> <<>>]
    /\ merged = <<>>
    /\ swapped = NoSwap
    /\ gpc = "start"
NextMerge ==
    \/ ParseLinks /\ UNCHANGED notMerge
    \/ Merge /\ UNCHANGED notMerge
    \/ MergeSwapped /\ UNCHANGED notMerge
SpecMerge == InitMerge /\ [][NextMerge]_vars

\* The steps of main after the crawl, on any decoded batch and any history:
\* every fetch and every write succeeds.
InitFinish ==
    /\ QuotaInit /\ WorkersIdle /\ RepoIdle /\ CrawlIdle /\ ParseIdle
    /\ UriIdle /\ SaveIdle /\ BudgetIdle /\ RequestIdle
    /\ decoded \in Batches
    /\ history \in Batches
    /\ new_nodes = [nodes |-> <<>>]
    /\ merged = <<>>
    /\ swapped = NoSwap
    /\ gpc = "start"
NextFinish ==
    \/ ParseLinks /\ UNCHANGED notMerge
    \/ Merge /\ UNCHANGED notMerge
    \/ MainSave /\ UNCHANGED notMergeSave
SpecFinish == InitFinish /\ [][NextFinish]_vars

\* parse_node_links on any list of links.
InitParse ==
    /\ QuotaInit /\ WorkersIdle /\ RepoIdle /\ CrawlIdle /\ MergeIdle
    /\ UriIdle /\ SaveIdle /\ BudgetIdle /\ RequestIdle
    /\ links \in LinkLists
    /\ result = NewResult(Len(links))
    /\ seen_set = {}
    /\ node_counter = NoNodeCounter
    /\ li = 1
    /\ ppc = "loop"
    /\ report = <<>>
NextParse ==
    \/ ParseLink /\ UNCHANGED notParse
    \/ ParseReturn /\ UNCHANGED notParse
SpecParse == InitParse /\ [][NextParse]_vars

\* Decode, generate, decode on any valid share line of the six schemes.
InitUri ==
    /\ QuotaInit /\ WorkersIdle /\ RepoIdle /\ CrawlIdle /\ MergeIdle /\ ParseIdle
    /\ SaveIdle /\ BudgetIdle /\ RequestIdle
    /\ uri \in ValidUris
    /\ descriptor = None
    /\ generated = None
    /\ redecoded = None
    /\ upc = "start"
NextUri ==
    \/ DecodeUri /\ UNCHANGED notUri
    \/ GenerateFromDescriptor /\ UNCHANGED notUri
    \/ DecodeGenerated /\ UNCHANGED notUri
SpecUri == InitUri /\ [][NextUri]_vars

\* save_results on any list of nodes around the size ceiling.
InitSave ==
    /\ QuotaInit /\ WorkersIdle /\ RepoIdle /\ CrawlIdle /\ MergeIdle /\ ParseIdle
    /\ UriIdle /\ BudgetIdle /\ RequestIdle
    /\ node_results \in {[nodes |-> l] : l \in SavedLists}
    /\ v2rayn_lines = <<>>
    /\ clash_config = <<>>
    /\ written = <<>>
    /\ fpc = "start"
NextSave == SaveResults /\ UNCHANGED notSave
SpecSave == InitSave /\ [][NextSave]_vars

C5_FalseIffNotLater ==
    rpc = "answered" =>
        LET c == spResult.candidate
            st == spResult.stored
            notLater ==
                /\ spResult.present
                /\ c.kind # "bad"
                /\ st.kind # "bad"
                /\ c.kind = st.kind
                /\ ~(c.t - c.off > st.t - st.off)
        IN  (spResult.result = FALSE) <=> notLater

C5_Witness ==
    /\ rpc = "answered"
    /\ spResult.result = FALSE
    /\ spResult.candidate.kind = "aware"
    /\ spResult.candidate.t > spResult.stored.t

\* C6: when the process is killed during update_status, the state file holds
\* either the complete text it held before the call or the complete text of
\* the new map.
C6_OldOrNewAfterCrash ==
    rpc = "crashed" => sfile \in {sv.before, sv.after}

\* C7 as claimed: a key that update_status recorded is in the map the state
\* file holds after every later update_status, in whatever runs follow,
\* also those that could not read the file (the runs of everRecorded are
\* those without a crash).
C7_KeptAcrossAllRuns ==
    rpc = "idle" =>
        everRecorded \subseteq
            (IF ParsesAsMap(sfile.text) THEN Keys(ParsedMap(sfile.text)) ELSE {})

\* C7 as amended: a key that update_status recorded is in the map the state
\* file holds whenever no update_status is in progress, as long as every
\* RepoManager constructed since then loaded the stored map from the file.
C7_KeptWhileLoaded ==
    rpc \in {"idle", "answered", "none"} =>
        recorded \subseteq
            (IF ParsesAsMap(sfile.text) THEN Keys(ParsedMap(sfile.text)) ELSE {})

C7_Witness ==
    /\ rpc = "idle"
    /\ reloaded
    /\ recorded = {"a/x", "b/y"}
    /\ Len(repo_status) = 2


\* C1: no contents fetch is issued for a directory deeper than
\* MAX_RECURSION_DEPTH (the root is at depth 0), whatever the tree.
C1_NoFetchBeyondCeiling ==
    \A i \in 1..Len(fetches) :
        /\ fetches[i].depth <= MAX_RECURSION_DEPTH
        /\ fetches[i].dir <= MAX_RECURSION_DEPTH

C1_Witness ==
    /\ mpc = "collected"
    /\ \E i \in 1..Len(fetches) : fetches[i].depth = MAX_RECURSION_DEPTH
    /\ HasSubDir(tree["a/x"][MAX_RECURSION_DEPTH])
    /\ tree["a/x"][MAX_RECURSION_DEPTH + 1] # <<>>
    /\ failing["a/x"] = {}

\* C2: every repository whose contents are fetched in a run is one for
\* which should_process, asked with the stored map and the marker the search
\* returned, answers true.
C2_OnlyChangedCrawled ==
    \A i \in 1..Len(fetches) :
        ShouldProcess(LoadStatus(sfile, TRUE), repos[fetches[i].repo].html_url,
                      repos[fetches[i].repo].pushed_at)


\* The descriptor an entry of a merged list carries: the 'data' of an entry
\* that parse_node_links wrapped, the entry itself otherwise.
DescriptorOf(entry) == IF "data" \in DOMAIN entry THEN entry.data ELSE entry

Range(list) == {list[i] : i \in 1..Len(list)}

Fingerprints(nodes) == {GenerateFingerprint(nodes[i]) : i \in 1..Len(nodes)}

\* The entries of a merged list that carry a descriptor with this fingerprint.
EntriesFor(list, fingerprint) ==
    {i \in 1..Len(list) : GenerateFingerprint(DescriptorOf(list[i])) = fingerprint}

\* C8: when a fresh descriptor, as produced by parse_node_links, has the same
\* canonical fields as a descriptor of the history, the merged set holds exactly
\* one entry for it, and that entry is the history's record.
C8_HistoryRecordWins ==
    gpc = "merged" =>
        \A i \in 1..Len(decoded) : \A j \in 1..Len(history) :
            GenerateFingerprint(decoded[i]) = GenerateFingerprint(history[j]) =>
                /\ Cardinality(EntriesFor(merged, GenerateFingerprint(history[j]))) = 1
                /\ \E k \in 1..Len(history) :
                       /\ GenerateFingerprint(history[k]) = GenerateFingerprint(history[j])
                       /\ \A e \in EntriesFor(merged, GenerateFingerprint(history[j])) :
                              merged[e] = history[k]

\* C9: merging a descriptor set with itself, the same descriptors being both
\* the fresh batch and the history, yields exactly the original set: nothing is
\* added and nothing is duplicated.
C9_MergeWithItself ==
    (/\ gpc = "merged"
     /\ decoded = history
     /\ Cardinality(Fingerprints(history)) = Len(history))
        => merged = history

\* C10: for two descriptor sets with no fingerprint in common, merging them in
\* either role gives the same elements; only their order may differ.
C10_SameElementsEitherWay ==
    (gpc = "swapped" /\ Fingerprints(decoded) \cap Fingerprints(history) = {}) =>
        /\ Range(swapped.ab) = Range(swapped.ba)
        /\ Len(swapped.ab) = Len(swapped.ba)
        /\ {DescriptorOf(e) : e \in Range(swapped.pab)}
               = {DescriptorOf(e) : e \in Range(swapped.pba)}
        /\ Len(swapped.pab) = Len(swapped.pba)

\* Both sets hold two descriptors, one of them holds two with one fingerprint,
\* and the two merges list the elements in different orders.
C10_Witness ==
    /\ gpc = "swapped"
    /\ Fingerprints(decoded) \cap Fingerprints(history) = {}
    /\ Len(decoded) = 2 /\ Len(history) = 2
    /\ Cardinality(Fingerprints(history)) = 1
    /\ Cardinality(Range(history)) = 2
    /\ swapped.ab # swapped.ba
    /\ Len(swapped.ab) = 3

\* Two descriptors that differ in nothing but the display name.
DifferOnlyInName(a, b) ==
    /\ DOMAIN a = DOMAIN b
    /\ \A k \in DOMAIN a \ {"name"} : a[k] = b[k]
    /\ a.name # b.name

\* C12: two descriptors of any protocol kind that agree on everything but the
\* display name have the same fingerprint, so parse_node_links keeps one entry
\* for the two.
C12_NameOutsideFingerprint ==
    gpc = "parsed" =>
        \A i \in 1..Len(decoded) : \A j \in 1..Len(decoded) :
            DifferOnlyInName(decoded[i], decoded[j]) =>
                /\ GenerateFingerprint(decoded[i]) = GenerateFingerprint(decoded[j])
                /\ Len(new_nodes.nodes) = 1

\* An entry that passes every test of _process_item for a node file.
IsNodeFile(item) ==
    /\ item.complete
    /\ item.name.lead \notin {".", "_"}
    /\ item.size <= MAX_FILE_SIZE
    /\ item.type # "dir"
    /\ item.name.ext \in {".yaml", ".yml", ".txt"}
    /\ item.name.keyword
    /\ item.scheme \in {"http", "https"}

\* An entry whose listing _process_item asks for.
IsEnteredDir(item) ==
    /\ item.complete
    /\ item.name.lead \notin {".", "_"}
    /\ item.size <= MAX_FILE_SIZE
    /\ item.type = "dir"

\* The node files of the root listing, as find_node_files returns them.
RootNodeFiles(listing) ==
    LET files == SelectSeq(listing, IsNodeFile)
    IN  [i \in 1..Len(files) |-> [name |-> files[i].name, url |-> files[i].html_url,
                                   download_url |-> files[i].scheme]]

\* The entries seen in a repository when the listings in bad cannot be
\* fetched: those of the root and those of each directory entered from it.
EntriesSeen(t, bad) ==
    IF 0 \in bad THEN 0
    ELSE Len(t[0]) + (IF 1 \in bad THEN 0
                      ELSE Len(SelectSeq(t[0], IsEnteredDir)) * Len(t[1]))

\* C18: when the fetch of a directory listing fails, only that directory is
\* abandoned: find_node_files returns, the remaining entries of the parent
\* listing are processed, and the run goes on to the next repository.
C18_OnlyFailedListingAbandoned ==
    mpc = "collected" =>
        LET t == tree["a/x"]
            bad == failing["a/x"]
        IN  /\ node_links = (IF 0 \in bad THEN <<>> ELSE RootNodeFiles(t[0]))
                                \o RootNodeFiles(tree["b/y"][0])
            /\ counter.total = EntriesSeen(t, bad) + EntriesSeen(tree["b/y"], {})
            /\ \E i \in 1..Len(fetches) : fetches[i].repo = 2 /\ fetches[i].dir = 0

\* The listing of the sub-directory fails, the file listed after the
\* sub-directory is still found, and so is the file of the next repository.
C18_Witness ==
    /\ mpc = "collected"
    /\ failing["a/x"] = {1}
    /\ tree["a/x"][0] = ListingAt(0, <<SubDir, GoodFile>>)
    /\ \E i \in 1..Len(fetches) : fetches[i].repo = 1 /\ fetches[i].dir = 1
    /\ Len(node_links) = 2

RECURSIVE OfferedUpTo(_)
\* The descriptors handed to add_nodes by the first n links, in order.
OfferedUpTo(n) == IF n = 0 THEN <<>> ELSE OfferedUpTo(n - 1) \o report[n].offered

ResultData == [i \in 1..Len(result.nodes) |-> result.nodes[i].data]

\* The first position of a fingerprint in a list of descriptors.
FirstIndex(nodes, fingerprint) ==
    CHOOSE i \in 1..Len(nodes) :
        /\ GenerateFingerprint(nodes[i]) = fingerprint
        /\ \A j \in 1..(i - 1) : GenerateFingerprint(nodes[j]) # fingerprint

\* C11: one seen-set runs through all links of parse_node_links: at every
\* point result['nodes'] has no two entries with one fingerprint, the entry
\* kept for a fingerprint is the descriptor met first (link order, then order
\* in the file), and every later one is dropped and counted as a duplicate.
C11_FirstOccurrenceKept ==
    LET met == OfferedUpTo(Len(report))
        kept == ResultData
    IN  /\ \A i, j \in 1..Len(kept) :
               i # j => GenerateFingerprint(kept[i]) # GenerateFingerprint(kept[j])
        /\ Fingerprints(kept) = Fingerprints(met)
        /\ \A k \in 1..Len(kept) :
               kept[k] = met[FirstIndex(met, GenerateFingerprint(kept[k]))]
        /\ \A k, l \in 1..Len(kept) :
               k < l => FirstIndex(met, GenerateFingerprint(kept[k]))
                            < FirstIndex(met, GenerateFingerprint(kept[l]))
        /\ node_counter.total_nodes = Len(met)
        /\ node_counter.dup_nodes = Len(met) - Len(kept)

\* Two links: the first holds two vmess lines with one fingerprint and an ss
\* line, the second a structured document with the same ss node again.
C11_Witness ==
    /\ ppc = "returned"
    /\ links = <<LinkOf("mixed", MixedFile), LinkOf("clash", ClashFile)>>
    /\ node_counter.dup_nodes = 2
    /\ Len(result.nodes) = 3
    /\ result.nodes[2].data.name = "b"

\* The content of link i after _parse_base64_config
Unwrapped(i) == ParseBase64Config(links[i].content, 0).content

\* C13: for a content on which both the structured stage and the line stage
\* would yield descriptors, the structured descriptors are the ones added.
C13_StructuredStageWins ==
    \A i \in 1..Len(report) :
        (/\ links[i].fetch = "ok"
         /\ ParseTxtContent(LinesOf(links[i].content)).success
         /\ ParseClashConfigContent(DocOf(links[i].content)).success)
        => /\ report[i].stage = "clash"
           /\ report[i].offered = ParseClashConfigContent(DocOf(links[i].content)).data

\* The nesting ceiling of the Base64 unwrap
NESTING_CEILING == 2

\* C14: the Base64 unwrap of a content applies no more than 2 successive
\* decodes, and a content that is still Base64 after it is recorded as
\* unrecognized.
C14_AtMostCeilingDecodes ==
    \A i \in 1..Len(report) :
        /\ report[i].decodes <= NESTING_CEILING
        /\ (links[i].fetch = "ok" /\ IsBase64(Unwrapped(i))) => report[i].stage = "none"

\* C15: every descriptor in the result of parse_node_links has a non-empty
\* server and a non-empty port.
C15_HostAndPortPresent ==
    \A i \in 1..Len(result.nodes) :
        /\ result.nodes[i].data.server # ""
        /\ result.nodes[i].data.port.s # ""

Decodes(line) == ParseSingleLine(line) # None

\* C16: in the line stage a line that does not decode, or has an unknown
\* scheme, gives no descriptor and does not end the stage: every other line of
\* the file gives its descriptor.
C16_BadLineSkipped ==
    \A i \in 1..Len(report) :
        links[i].fetch = "ok" =>
            LET good == SelectSeq(LinesOf(Unwrapped(i)), Decodes) IN
            IF good = <<>> THEN report[i].stage # "text"
            ELSE /\ report[i].stage = "text"
                 /\ ~report[i].raised
                 /\ report[i].offered = [k \in 1..Len(good) |-> ParseSingleLine(good[k])]

\* A file with lines that decode before and after lines that do not.
C16_Witness ==
    /\ Len(report) >= 1
    /\ links[1] = LinkOf("mixed", MixedFile)
    /\ Len(report[1].offered) = 3
    /\ ~Decodes(MixedFile.lines[2]) /\ ~Decodes(MixedFile.lines[3])
    /\ Len(result.nodes) = 2

\* C17: after parse_node_links every link is accounted for exactly once:
\* success_count + failure_count = total_links, len(failures) = failure_count,
\* total_nodes = len(nodes), and a link that gave no descriptor is one failure.
C17_EveryLinkCountedOnce ==
    ppc = "returned" =>
        /\ Len(report) = Len(links)
        /\ result.total_links = Len(links)
        /\ result.success_count + result.failure_count = result.total_links
        /\ Len(result.failures) = result.failure_count
        /\ result.total_nodes = Len(result.nodes)
        /\ result.failure_count
               = Cardinality({i \in 1..Len(report) : report[i].stage = "none"})

\* The required fields of a descriptor: its kind, host and port.
RequiredFields(d) == [type |-> d.type, server |-> d.server, port |-> d.port]

\* C19: for a valid ss, vmess, trojan, vless, ssr or hysteria2 line, the line
\* that _generate_uri makes of the decoded descriptor has the scheme of the
\* original line, and decodes to the same kind, host and port.
C19_RoundTrip ==
    upc = "redecoded" =>
        /\ generated.scheme = uri.scheme
        /\ redecoded # None
        /\ RequiredFields(redecoded) = RequiredFields(descriptor)

RECURSIVE ConcatChunks(_, _)
\* The contents of the numbered files of a stem, from part k on, one after
\* the other.
ConcatChunks(stem, k) ==
    IF FileName(stem, k) \notin DOMAIN written THEN <<>>
    ELSE written[FileName(stem, k)] \o ConcatChunks(stem, k + 1)

\* C20: when the lines or the proxies exceed the ceiling of 5000, the numbered
\* subscription files hold at most 5000 lines each and, one after the other,
\* are the content of all_subscription.txt; the same holds of the numbered
\* clash_config files and all_clash_config.yaml, whatever the two lengths are.
C20_ChunksCoverAll ==
    (fpc = "saved" /\ (Len(clash_config) > SPLIT_THRESHOLD \/ Len(v2rayn_lines) > SPLIT_THRESHOLD)) =>
        /\ \A f \in DOMAIN written : f.part > 0 => Len(written[f]) <= CHUNK_SIZE
        /\ ConcatChunks("subscription", 1) = written[FileName("all_subscription", 0)]
        /\ ConcatChunks("clash_config", 1) = written[FileName("all_clash_config", 0)]

\* C21: every file that passes the filter chain in a directory within the
\* depth ceiling is among the links find_node_files returns, so the links
\* collected over a run are as many as FileCounter.total_links counts.
C21_EveryCountedLinkReturned == Len(node_links) = counter.total_links

\* C22: a check_limit call made 3590 seconds or more after the recorded
\* window start, however long after, resets the counter and the window start
\* before it counts itself: it returns with the counter at 1 and the window
\* starting at the time of the call.
C22_ResetAfterWindow ==
    [][(lastCheck' # lastCheck /\ now - last_reset >= WINDOW_SECONDS) =>
          (lastCheck'.ret = 1 /\ lastCheck'.window = now /\ count' = 1)]_vars

RECURSIVE ReturnsIn(_, _)
\* The calls that returned at one of the clock readings of a set.
ReturnsIn(log, times) ==
    IF times = {} THEN 0
    ELSE LET t == CHOOSE u \in times : TRUE
         IN  log[t] + ReturnsIn(log, times \ {t})

\* C23: whenever check_limit is called, the calls that return within any
\* 3600 seconds, a blocking wait included, are at most the 5000 of the hourly
\* budget.
C23_BudgetInAnyHour ==
    \A t \in DOMAIN returns_at :
        ReturnsIn(returns_at, {u \in DOMAIN returns_at : t <= u /\ u < t + HOUR_SECONDS})
            <= 5000

\* C24 as stated: every request safe_request issues, retries included, comes
\* after exactly one check_limit call of its own, so whenever no request is
\* about to be issued the counter is the number of requests attempted since
\* the counter was last set to 0.
C24_CounterEqualsRequests ==
    /\ qpc = "get" => checks = gets + 1
    /\ qpc # "get" => checks = gets /\ count = uncounted

\* C24 amended: every request safe_request issues, retries included, comes
\* after exactly one check_limit call of its own; the counter is the number
\* of requests attempted since it was last set to 0, or one less than that
\* after a call that waited at the near-limit threshold, because that call
\* sets the counter to 0 after counting itself and issues its request then.
C24_OneCheckPerRequest ==
    /\ qpc = "get" => checks = gets + 1
    /\ qpc # "get" =>
        /\ checks = gets
        /\ count \in {uncounted, uncounted - 1}
        /\ count = uncounted - 1 => sleeps > 0

C24_Witness ==
    /\ qpc = "idle"
    /\ attempt = 3
    /\ gets = 3
    /\ sleeps = 1
    /\ count = uncounted - 1
    /\ surfaced = "value"

\* C25: a safe_request call whose attempt fails by timeout, by a 5xx status
\* or by a rate-limit 403 is attempted again, up to MAX_RETRIES attempts in
\* all, and only then does the failure reach the caller.
C25_TransientRetried ==
    /\ attempt <= MAX_RETRIES
    /\ (surfaced \notin {"none", "value"} /\ outcome \in {"timeout", "http500", "http403"})
          => attempt = MAX_RETRIES

\* The entry of the tree a link was made from.
EntryOf(link) == tree["a/x"][link.url.dir][link.url.entry]

RECURSIVE OversizedMet(_)
\* The entries larger than MAX_FILE_SIZE on the pages the first n fetches
\* brought.
OversizedMet(n) ==
    IF n = 0 THEN 0
    ELSE LET key == RepoKey(repos[fetches[n].repo].html_url)
             contents == IF fetches[n].dir \in failing[key] THEN <<>>
                         ELSE PageOf(tree[key][fetches[n].dir], fetches[n].page)
         IN  OversizedMet(n - 1)
             + Cardinality({j \in 1..Len(contents) : contents[j].size > MAX_FILE_SIZE})

\* C26: every link find_node_files returns was made from an entry that has
\* all required fields, is of type file, has a name that starts with neither
\* "." nor "_", ends in .yaml, .yml or .txt and matches the keyword pattern,
\* is not larger than MAX_FILE_SIZE and has an http or https download_url;
\* every entry larger than MAX_FILE_SIZE adds 1 to FileCounter.skipped.
C26_OnlyFilteredEntriesReturned ==
    /\ counter.skipped = OversizedMet(Len(fetches))
    /\ \A i \in 1..Len(node_links) :
         LET item == EntryOf(node_links[i]) IN
             /\ item.complete
             /\ item.type = "file"
             /\ item.name.lead \notin {".", "_"}
             /\ item.size <= MAX_FILE_SIZE
             /\ item.name.ext \in {".yaml", ".yml", ".txt"}
             /\ item.name.keyword
             /\ item.scheme \in {"http", "https"}

\* The ceilings on the entries of a directory a crawl of the trees above can
\* tell apart.
EntryCeilings == 0..(2 * PER_PAGE)

\* C27: there is a ceiling such that a directory whose listing has more
\* entries than the ceiling is abandoned as a whole: no link is made from one
\* of its entries, none of its directories is fetched and no page of it after
\* the first is fetched.
C27_OverfullDirectoryAbandoned ==
    \E c \in EntryCeilings :
        \A d \in DirIds :
            Len(tree["a/x"][d]) > c =>
                /\ \A i \in 1..Len(node_links) : node_links[i].url.dir # d
                /\ \A i \in 1..Len(fetches) :
                       /\ fetches[i].dir # d + 1
                       /\ fetches[i].dir = d => fetches[i].page = 1

\* The fetches of directory d, in the order they were issued.
FetchesOf(d) == SelectSeq(fetches, LAMBDA f : f.dir = d)

\* C28: the pages of a directory are fetched in increasing order from page
\* 1, each once; page k + 1 is fetched only after a page k of exactly PER_PAGE
\* entries; the last page fetched is short, empty or not a list; and the loop
\* over the pages ends: of a listing of n entries at most n \div PER_PAGE + 1
\* pages are fetched.
C28_PagesFetchedInOrder ==
    \A d \in DirIds :
        LET fs == FetchesOf(d)
            listing == tree["a/x"][d]
            unlisted == d \in failing["a/x"]
        IN  /\ \A k \in 1..Len(fs) : fs[k].page = k
            /\ \A k \in 2..Len(fs) :
                   ~unlisted /\ Len(PageOf(listing, k - 1)) = PER_PAGE
            /\ (mpc = "collected" /\ fs # <<>>) =>
                   unlisted \/ Len(PageOf(listing, Len(fs))) < PER_PAGE
            /\ Len(fs) <= Len(listing) \div PER_PAGE + 1

\* Two full pages and a short one at the root, a full page and an empty one
\* in its sub-directory.
C28_Witness ==
    /\ mpc = "collected"
    /\ Len(FetchesOf(0)) = 3
    /\ Len(FetchesOf(1)) = 2
    /\ Len(tree["a/x"][1]) = PER_PAGE
    /\ Len(node_links) = 2 * PER_PAGE

\* An element of 'proxies' that is a mapping with the four required keys.
CarriesKeys(proxy) ==
    /\ "scalar" \notin DOMAIN proxy
    /\ {"name", "type", "server", "port"} \subseteq DOMAIN proxy

\* C29: for a document with a proxies sequence that reaches the structured
\* stage, the stage gives exactly the elements that are mappings with the keys
\* name, type, server and port, in their order; the other elements are dropped
\* without failing the file, and the stage succeeds exactly when an element
\* remains.
C29_ExactlyKeyedElements ==
    \A i \in 1..Len(report) :
        LET content == Unwrapped(i)
            doc == DocOf(content)
        IN  (/\ links[i].fetch = "ok"
             /\ doc.kind = "map"
             /\ ~ParseTxtContent(LinesOf(content)).success)
            => LET kept == SelectSeq(doc.proxies, CarriesKeys) IN
               /\ report[i].stage = "clash" <=> kept # <<>>
               /\ (report[i].stage = "clash" /\ ~report[i].raised)
                      => report[i].offered = kept

\* C30: in a run of main whose fetches and writes all succeed, save_results
\* accepts the set merge_nodes returned, so that the run goes on to its last
\* step, update_status for every repository of the search; the run never ends
\* at the save before a repository is recorded.
C30_MergedSetAccepted == ~(gpc = "save_failed" /\ recorded = {})

====
